---- MODULE Spec2Model ----
(***************************************************************************)
(* Notion -> CalDAV synchronisation worker: the reconciliation engine      *)
(* (src/app/engine.py), the webhook handler (src/app/webhook.py) and the   *)
(* per-field settings store (src/app/stores.py), as a state machine.       *)
(***************************************************************************)
EXTENDS Integers, Sequences, FiniteSets, TLC

\* ------------------------------------------------------------------ bounds
MaxTime == 1        \* the clock runs 0..MaxTime
MaxEdits == 2       \* changes made by the environment (task source, calendar, admin)
MaxRuns == 2        \* full-sync invocations
MaxHooks == 2       \* webhook requests
MixEdits == 1       \* environment changes when full sync and webhooks interleave
MixRuns == 1        \* full-sync invocations when full sync and webhooks interleave
AdminRuns == 1      \* full syncs started through the admin endpoint
MixHooks == 1       \* webhook requests when full sync and webhooks interleave
MaxCalls == 2       \* calls of the settings store
MaxFaults == 1      \* writes of the settings store that fail
MaxDay == 1         \* the days dates fall on are 0..MaxDay
MaxRenders == 2     \* renderings of one task

\* --------------------------------------------------------------- constants
NoDate == -1                    \* a timestamp that is absent (None)
InstantsPerDay == 3             \* 00:00:00, 12:00:00 and 23:59:59 of a day
\* the values of a date property: an ISO string of a date and time with a UTC
\* offset (its wall clock reads at, off later than UTC), of a date and time
\* without offset, of a date alone (day at), a string that is no ISO date, and
\* None
Aware(at, off) == [kind |-> "aware", at |-> at, off |-> off]
Naive(at) == [kind |-> "naive", at |-> at, off |-> 0]
DateOnly(day) == [kind |-> "date", at |-> day, off |-> 0]
BadDate == [kind |-> "bad", at |-> 0, off |-> 0]
Unset == [kind |-> "none", at |-> 0, off |-> 0]
Date0 == Aware(0, 0)            \* the date the pages of the model carry when they carry one
NoId == "-"                     \* a page record without an id (None)
NoEvent == [uid |-> NoId]       \* no payload
NoHash == <<"none", NoEvent>>   \* dict.get() finding no stored hash (None)
PageIds == {"a", "b"}
Procs == {1, 2}
DEFAULT_CALENDAR_COLOR == "c0"
Colors == {"c0", "c1"}
CalendarHref == "cal"
_FINAL_STATUSES == {"Completed", "Cancelled"}

VARIABLES
    now,        \* wall clock (UTC)
    pages,      \* the task source: page id -> its record
    remote,     \* the remote calendar: event id -> payload (a function on the ids present)
    kv,         \* the settings KV namespace: field name -> value (a function on the fields present)
    fs,         \* run_full_sync invocations: process -> locals and position
    wh,         \* the webhook invocation: request, position, locals, response
    quiet,      \* completed full syncs since the environment last changed
    calm,       \* the same, a derived status changing counting as a change
    remoteAtDone, \* the remote calendar when the last full sync completed
    sched,      \* the last completed full sync the scheduled trigger started
    adm,        \* the admin request being served: request, position, response
    budget,     \* what the environment and the callers may still do
    store,      \* the KV namespace record by record, and the store calls in progress
    probe       \* a function of the program applied to an input: arguments, position, result

\* the state of the engine, the webhook handler and the worker
engine == <<now, pages, remote, kv, fs, wh, quiet, calm, remoteAtDone, sched, adm, budget>>

vars == <<now, pages, remote, kv, fs, wh, quiet, calm, remoteAtDone, sched, adm, budget, store, probe>>

\* ------------------------------------------------------------ pure helpers
Min(a, b) == IF a < b THEN a ELSE b

\* d with key k set to v (dict assignment)
DictSet(d, k, v) == [x \in DOMAIN d \cup {k} |-> IF x = k THEN v ELSE d[x]]

\* d without key k
DictDel(d, k) == [x \in DOMAIN d \ {k} |-> d[x]]

\* dict.get(k, default)
DictGet(d, k, default) == IF k \in DOMAIN d THEN d[k] ELSE default

EmptyDict == [x \in {} |-> NoHash]

Range(s) == {s[i] : i \in DOMAIN s}

\* status names as stored upstream; page "a" is open, page "b" is completed
StatusOf(id) == IF id = "b" THEN "Completed" ELSE "In progress"

normalize_status_name(status) ==
    IF status \in {"Todo", "In progress", "Completed", "Cancelled", "Overdue"}
    THEN status ELSE "None"

\* parse_page_to_task: the canonical task of a raw page record
parse_page_to_task(page) ==
    [notion_id |-> page.id, start_date |-> page.start, end_date |-> page.end,
     status |-> page.status, rev |-> page.rev]

\* the raw record the source serves for page id (rev stands for title,
\* description, category, reminder and url together)
PageRecord(id) ==
    [id |-> id, start |-> pages[id].start, end |-> Unset,
     status |-> StatusOf(id), rev |-> pages[id].rev]

\* a record the source serves without an id
AnonRecord == [id |-> NoId, start |-> Date0, end |-> Unset, status |-> "Todo", rev |-> 0]

\* task.start_date is truthy
HasStart(task) == task.start_date # Unset
HasId(task) == task.notion_id # NoId

\* lines 199-206: the value is a string without a "T"
_is_all_day_value(value) == value.kind \in {"date", "bad"}

NotParsed == [ok |-> FALSE, at |-> 0]
Parsed(at) == [ok |-> TRUE, at |-> at]

\* a date alone is read as its midnight
ParseAtMidnight(value, end_of_day_if_date_only) ==
    IF value.kind \in {"none", "bad"} THEN NotParsed
    ELSE IF value.kind = "date" THEN Parsed(InstantsPerDay * value.at)
    ELSE Parsed(value.at - value.off)

\* lines 208-227: the instant (UTC) the value denotes, if it parses; a date
\* alone is its midnight, or its 23:59:59 when end_of_day_if_date_only; a
\* value without offset is taken as UTC
_parse_iso_datetime(value, end_of_day_if_date_only) ==
    IF value.kind \in {"none", "bad"} THEN NotParsed
    ELSE IF value.kind = "date"
    THEN Parsed(InstantsPerDay * value.at
                    + (IF end_of_day_if_date_only THEN InstantsPerDay - 1 ELSE 0))
    ELSE Parsed(value.at - value.off)

\* the due time is taken from the start even when there is an end
IsTaskOverdueByStart(task, t) ==
    IF task.start_date = Unset /\ task.end_date = Unset THEN FALSE
    ELSE IF normalize_status_name(task.status) \in _FINAL_STATUSES THEN FALSE
    ELSE LET due_dt == _parse_iso_datetime(task.start_date, _is_all_day_value(task.start_date))
         IN due_dt.ok /\ due_dt.at < t

\* lines 184-196
_is_task_overdue(task, t) ==
    IF task.start_date = Unset /\ task.end_date = Unset THEN FALSE
    ELSE IF normalize_status_name(task.status) \in _FINAL_STATUSES THEN FALSE
    ELSE LET due_source == IF task.end_date # Unset THEN task.end_date ELSE task.start_date
             all_day_due == \/ _is_all_day_value(task.end_date)
                            \/ task.end_date = Unset /\ _is_all_day_value(task.start_date)
             due_dt == _parse_iso_datetime(due_source, all_day_due)
         IN due_dt.ok /\ due_dt.at < t

_status_for_task(task, t) ==
    LET normalized == IF normalize_status_name(task.status) = "None"
                      THEN "Todo" ELSE normalize_status_name(task.status)
    IN IF _is_task_overdue(task, t) THEN "Overdue" ELSE normalized

\* ics.build_event: the payload is determined by, and determines, its arguments
build_event(uid, rev, status, start, end, color) ==
    [uid |-> uid, rev |-> rev, status |-> status, start |-> start, end |-> end,
     color |-> color]

\* a payload that carries the time it was rendered at
BuildIcsStamped(task, calendar_color, t) ==
    build_event(task.notion_id, task.rev + 2 * t, _status_for_task(task, t),
                task.start_date, task.end_date, calendar_color)

_build_ics_for_task(task, calendar_color, t) ==
    build_event(task.notion_id, task.rev, _status_for_task(task, t),
                task.start_date, task.end_date, calendar_color)

\* sha256 hexdigest: collision free on the payloads of the model
_hash_ics_payload(ics) == <<"sha256", ics>>

_event_url(calendar_href, notion_id) == <<calendar_href, notion_id>>

\* ---------------------------------------------------------- settings store
\* load_settings: the mapping of the per-field records present
load_settings(ns) == ns

\* update_settings: a field given a value is written, a field given None is
\* removed; updates maps a field to [some |-> TRUE, v |-> value] or [some |-> FALSE]
update_settings(ns, updates) ==
    LET removed == {k \in DOMAIN updates : ~updates[k].some}
        written == {k \in DOMAIN updates : updates[k].some}
    IN load_settings([x \in (DOMAIN ns \ removed) \cup written |->
                         IF x \in written THEN updates[x].v ELSE ns[x]])

Some(v) == [some |-> TRUE, v |-> v]
None == [some |-> FALSE]

\* ---------------------------------------------------------- calendar store
\* calendar.ensure_calendar: the settings, with calendar_href and
\* calendar_color persisted when the calendar had to be found or created
calendar_ensure(ns, established) ==
    IF "calendar_href" \in DOMAIN ns \/ ~established THEN load_settings(ns)
    ELSE update_settings(ns,
            [f \in {"calendar_href", "calendar_color"} |->
                IF f = "calendar_href" THEN Some(CalendarHref)
                ELSE Some(DictGet(ns, "calendar_color", DEFAULT_CALENDAR_COLOR))])

\* the settings are taken as they come
MetadataNeverMissing(settings) == FALSE

\* engine.py lines 264-265 and 325-326: not settings.get("calendar_href")
MetadataMissing(settings) == "calendar_href" \notin DOMAIN settings

\* calendar.put_event: create or replace the event at the url
calendar_put_event(cal, event_url, ics) == DictSet(cal, event_url[2], ics)

\* calendar.delete_event: remove the event at the url; a missing one is no error
calendar_delete_event(cal, event_url) == DictDel(cal, event_url[2])

\* calendar.remove_missing_events: the listed events whose id is not kept
MissingEvents(keep_ids, existing_events) == existing_events \ Range(keep_ids)

DeleteAll(cal, ids) == [x \in DOMAIN cal \ ids |-> cal[x]]

\* ------------------------------------------------------------- task source
LiveIds == {id \in PageIds : pages[id].state = "live"}

\* every record the source serves for the task databases, in query order
SourceRecords ==
    (IF "a" \in LiveIds THEN <<PageRecord("a")>> ELSE << >>)
    \o <<AnonRecord>>
    \o (IF "b" \in LiveIds THEN <<PageRecord("b")>> ELSE << >>)

ParseAll(records) == [i \in DOMAIN records |-> parse_page_to_task(records[i])]

\* _collect_tasks when every response is a success
_collect_tasks == ParseAll(SourceRecords)

\* _collect_tasks when the source answers a non-success status after serving
\* the first k records: http_json does not look at the status and the error
\* body holds no "results", so pagination stops with what it has. The run is
\* then served another task list than a run the source answers in full.
CollectTruncated(k) == SubSeq(_collect_tasks, 1, k)

\* ------------------------------------------------------------ run_full_sync
NoSched == [start |-> NoDate, end |-> NoDate]

IdleRun ==
    [pc |-> "idle", error |-> "", calendar_color |-> DEFAULT_CALENDAR_COLOR,
     stored_hashes |-> EmptyDict, existing_events |-> {}, existing_ids |-> {},
     tasks |-> << >>, i |-> 1, updated_ids |-> << >>, updated_hashes |-> EmptyDict,
     writes |-> 0, skips |-> 0, result |-> EmptyDict,
     \* history kept for the properties
     kv0 |-> EmptyDict, puts |-> {}, skipped |-> {}, deleted |-> {},
     rendered |-> EmptyDict, srcError |-> FALSE, tainted |-> FALSE, stirred |-> FALSE,
     persistedAt |-> NoDate, trigger |-> "none", firedAt |-> NoDate, due |-> "",
     minutes |-> 0, prev |-> NoSched,
     \* the ids a webhook batch has put since this run listed and collected
     hooked |-> {},
     \* the settings fields whose write raised inside _kv_put
     dropped |-> {}]

\* the start date is not looked at
SyncableWithoutStart(task) == HasId(task)

\* lines 287-290: a task without a start or without an id is passed over
Syncable(task) == HasStart(task) /\ HasId(task)

\* the remote presence is not looked at
NeedsWriteHashOnly(previous_hash, payload_hash, exists_remotely) ==
    previous_hash # payload_hash

\* line 295: the write decision
NeedsWrite(previous_hash, payload_hash, exists_remotely) ==
    previous_hash # payload_hash \/ ~exists_remotely

\* only the ids written are kept
ShouldExistWrittenOnly(updated_ids, task, wrote) ==
    IF wrote THEN Append(updated_ids, task.notion_id) ELSE updated_ids

\* line 302: the ids that should exist remotely after this run
ShouldExist(updated_ids, task, wrote) == Append(updated_ids, task.notion_id)

\* the new ledger is merged into the stored one
PersistUpdatesMerged(t, updated_hashes) ==
    [f \in {"last_full_sync", "event_hashes"} |->
        IF f = "last_full_sync" THEN Some(t)
        ELSE Some([id \in DOMAIN updated_hashes \cup DOMAIN DictGet(kv, "event_hashes", EmptyDict) |->
                    IF id \in DOMAIN updated_hashes THEN updated_hashes[id]
                    ELSE kv["event_hashes"][id]])]

\* lines 312-316: what the run persists
PersistUpdates(t, updated_hashes) ==
    [f \in {"last_full_sync", "event_hashes"} |->
        IF f = "last_full_sync" THEN Some(t) ELSE Some(updated_hashes)]

Fail(r, why) == [r EXCEPT !.pc = "failed", !.error = why]

\* lines 263-270, for an invocation whose history so far is run
StartRun(p, run) ==
    /\ fs[p].pc = "idle"
    /\ budget.runs > 0
    /\ budget' = [budget EXCEPT !.runs = @ - 1]
    /\ \E established \in BOOLEAN :
         LET settings == calendar_ensure(kv, established)
             r0 == [run EXCEPT !.kv0 = kv]
         IN /\ kv' = settings
            /\ fs' = [fs EXCEPT ![p] =
                 IF MetadataMissing(settings)
                 THEN Fail(r0, "Calendar metadata missing")
                 ELSE [r0 EXCEPT
                         !.pc = "list",
                         !.calendar_color =
                             DictGet(settings, "calendar_color", DEFAULT_CALENDAR_COLOR),
                         !.stored_hashes = DictGet(settings, "event_hashes", EmptyDict)]]
    /\ UNCHANGED <<store, probe, now, pages, remote, wh, quiet, calm, remoteAtDone, sched>>

\* run_full_sync called directly (the admin endpoint, a test)
FS_Start(p) ==
    /\ StartRun(p, [IdleRun EXCEPT !.trigger = "direct"])
    /\ UNCHANGED adm

FS_List(p) ==
    /\ fs[p].pc = "list"
    /\ \E ok \in BOOLEAN :
         fs' = [fs EXCEPT ![p] =
                 IF ok THEN [@ EXCEPT !.pc = "collect",
                                      !.existing_events = DOMAIN remote,
                                      !.existing_ids = DOMAIN remote]
                 ELSE Fail(@, "list_events")]
    /\ UNCHANGED <<store, probe, now, pages, remote, kv, wh, adm, quiet, calm, remoteAtDone, sched, budget>>

FS_Collect(p) ==
    /\ fs[p].pc = "collect"
    /\ \/ /\ fs' = [fs EXCEPT ![p] = [@ EXCEPT !.pc = "diff", !.tasks = _collect_tasks]]
            /\ UNCHANGED <<quiet, calm>>
       \/ \E k \in 0 .. Len(_collect_tasks) - 1 :
            /\ fs' = [fs EXCEPT ![p] = [@ EXCEPT !.pc = "diff", !.srcError = TRUE,
                                                  !.tainted = TRUE, !.stirred = TRUE,
                                                  !.tasks = CollectTruncated(k)]]
            /\ quiet' = 0
            /\ calm' = 0
       \/ /\ fs' = [fs EXCEPT ![p] = Fail(@, "task source unreachable")]
          /\ UNCHANGED <<quiet, calm>>
    /\ UNCHANGED <<store, probe, now, pages, remote, kv, wh, adm, remoteAtDone, sched, budget>>

\* the exception of a put is swallowed and the loop goes on
PutSwallowed(r) == [r EXCEPT !.i = @ + 1, !.error = "put_event"]

\* line 297: an exception of calendar_put_event leaves run_full_sync
PutRaised(r) == Fail(r, "put_event")

\* one iteration of the loop of lines 286-303, the put succeeding or raising
FS_Task(p) ==
    /\ fs[p].pc = "diff"
    /\ fs[p].i <= Len(fs[p].tasks)
    /\ LET r == fs[p]
           task == r.tasks[r.i]
           ics == _build_ics_for_task(task, r.calendar_color, now)
           payload_hash == _hash_ics_payload(ics)
           previous_hash == DictGet(r.stored_hashes, task.notion_id, NoHash)
           exists_remotely == task.notion_id \in r.existing_ids
           wrote == NeedsWrite(previous_hash, payload_hash, exists_remotely)
           kept == [r EXCEPT
                      !.i = @ + 1,
                      !.updated_ids = ShouldExist(@, task, wrote),
                      !.updated_hashes = DictSet(@, task.notion_id, payload_hash),
                      !.rendered = DictSet(@, task.notion_id, ics)]
       IN IF ~Syncable(task)
          THEN /\ fs' = [fs EXCEPT ![p] = [r EXCEPT !.i = @ + 1]]
               /\ UNCHANGED remote
          ELSE IF wrote
          THEN \E ok \in BOOLEAN :
                 IF ok
                 THEN /\ remote' = calendar_put_event(remote,
                                      _event_url(CalendarHref, task.notion_id), ics)
                      /\ fs' = [fs EXCEPT ![p] =
                                 [kept EXCEPT !.existing_ids = @ \cup {task.notion_id},
                                              !.writes = @ + 1,
                                              !.puts = @ \cup {task}]]
                 ELSE /\ fs' = [fs EXCEPT ![p] = PutRaised(r)]
                      /\ UNCHANGED remote
          ELSE /\ fs' = [fs EXCEPT ![p] =
                          [kept EXCEPT !.skips = @ + 1,
                                       !.skipped = @ \cup {task.notion_id}]]
               /\ UNCHANGED remote
    /\ UNCHANGED <<store, probe, now, pages, kv, wh, adm, quiet, calm, remoteAtDone, sched, budget>>

\* the ledger is written before cleanup instead of after it
FS_CleanupAfterPersist(p) ==
    /\ fs[p].pc = "diff"
    /\ fs[p].i > Len(fs[p].tasks)
    /\ kv' = update_settings(kv, PersistUpdates(now, fs[p].updated_hashes))
    /\ LET stale == MissingEvents(fs[p].updated_ids, fs[p].existing_events)
       IN \/ /\ remote' = DeleteAll(remote, stale)
             /\ fs' = [fs EXCEPT ![p] = [@ EXCEPT !.pc = "persist", !.deleted = stale]]
          \/ \E gone \in SUBSET stale :
               /\ remote' = DeleteAll(remote, gone)
               /\ fs' = [fs EXCEPT ![p] =
                            Fail([@ EXCEPT !.deleted = gone], "remove_missing_events")]
    /\ UNCHANGED <<store, probe, now, pages, wh, adm, quiet, calm, remoteAtDone, sched, budget>>

\* lines 304-310: cleanup, succeeding or raising after some of its deletes
FS_Cleanup(p) ==
    /\ fs[p].pc = "diff"
    /\ fs[p].i > Len(fs[p].tasks)
    /\ LET stale == MissingEvents(fs[p].updated_ids, fs[p].existing_events)
       IN \/ /\ remote' = DeleteAll(remote, stale)
             /\ fs' = [fs EXCEPT ![p] = [@ EXCEPT !.pc = "persist", !.deleted = stale]]
          \/ \E gone \in SUBSET stale :
               /\ remote' = DeleteAll(remote, gone)
               /\ fs' = [fs EXCEPT ![p] =
                            Fail([@ EXCEPT !.deleted = gone], "remove_missing_events")]
    /\ UNCHANGED <<store, probe, now, pages, kv, wh, adm, quiet, calm, remoteAtDone, sched, budget>>

\* the updates that name field
Only(updates, field) == [f \in DOMAIN updates \cap {field} |-> updates[f]]

\* the writes of the settings store that may raise inside _kv_put
Raises == IF budget.faults > 0 THEN BOOLEAN ELSE {FALSE}

\* stores.py 26-32 under 175-180: ns.put writes the record, or raises and
\* _kv_put returns as if it had
KvPut(ns, updates, raised) ==
    IF raised THEN load_settings(ns) ELSE update_settings(ns, updates)

\* lines 311-316, and stores.py 175-179 for the first keyword: the time is
\* taken and last_full_sync written
FS_Persist(p) ==
    /\ fs[p].pc = "persist"
    /\ \E raised \in Raises :
        LET put == KvPut(kv, Only(PersistUpdates(now, fs[p].updated_hashes),
                                  "last_full_sync"), raised)
        IN /\ kv' = put
           /\ budget' = [budget EXCEPT !.faults = IF raised THEN @ - 1 ELSE @]
           /\ fs' = [fs EXCEPT ![p] =
                        [@ EXCEPT !.pc = "ledger", !.persistedAt = now,
                                  !.dropped = IF raised THEN @ \cup {"last_full_sync"}
                                              ELSE @]]
    /\ UNCHANGED <<store, probe, now, pages, remote, wh, adm, quiet, calm, remoteAtDone, sched>>

\* stores.py 175-180 for the second keyword, and lines 317-318: event_hashes
\* is written, the settings are loaded and returned
FS_PersistHashes(p) ==
    /\ fs[p].pc = "ledger"
    /\ \E raised \in Raises :
        LET put == KvPut(kv, Only(PersistUpdates(fs[p].persistedAt, fs[p].updated_hashes),
                                  "event_hashes"), raised)
            lost == raised \/ fs[p].dropped # {}
        IN /\ kv' = put
           /\ budget' = [budget EXCEPT !.faults = IF raised THEN @ - 1 ELSE @]
           /\ fs' = [fs EXCEPT ![p] =
                        [@ EXCEPT !.pc = "done", !.result = put,
                                  !.dropped = IF raised THEN @ \cup {"event_hashes"}
                                              ELSE @]]
           /\ quiet' = IF lost THEN 0 ELSE IF fs[p].tainted THEN quiet ELSE Min(quiet + 1, 2)
           /\ calm' = IF lost THEN 0 ELSE IF fs[p].stirred THEN calm ELSE Min(calm + 1, 2)
    /\ UNCHANGED <<store, probe, now, pages, remote, wh, adm, remoteAtDone, sched>>

\* the invocation ends: its caller has the settings or the exception
FS_Return(p) ==
    /\ fs[p].pc \in {"done", "failed", "skipped"}
    /\ fs' = [fs EXCEPT ![p] = IdleRun]
    /\ remoteAtDone' = IF fs[p].pc = "done" THEN remote ELSE remoteAtDone
    /\ sched' = IF fs[p].pc = "done" /\ fs[p].trigger = "scheduled"
                THEN [start |-> fs[p].firedAt, end |-> fs[p].persistedAt]
                ELSE sched
    /\ UNCHANGED <<store, probe, now, pages, remote, kv, wh, adm, quiet, calm, budget>>

\* --------------------------------------------------------- scheduled trigger
DEFAULT_FULL_SYNC_MINUTES == 1
Unparseable == -2    \* a last_full_sync that datetime.fromisoformat rejects (ValueError)
NaiveStamp == -3     \* a last_full_sync that parses to a datetime without UTC offset
Intervals == {1, 2}

\* the gate lets every firing through
FullSyncDueAlways(settings, t) == "True"

\* lines 249-258: "True", "False", or the exception that leaves the function
full_sync_due(settings, t) ==
    LET minutes == DictGet(settings, "full_sync_interval_minutes", DEFAULT_FULL_SYNC_MINUTES)
        last == DictGet(settings, "last_full_sync", NoDate)
    IN IF last = NoDate THEN "True"
       ELSE IF last = Unparseable THEN "True"
       ELSE IF last = NaiveStamp THEN "TypeError"
       ELSE IF t - last >= minutes THEN "True" ELSE "False"

\* worker.py lines 161-166: one firing of the cron trigger
Scheduled(p) ==
    LET settings == load_settings(kv)
        due == IF DOMAIN settings = {} THEN "True" ELSE full_sync_due(settings, now)
        run == [IdleRun EXCEPT !.trigger = "scheduled", !.firedAt = now, !.due = due,
                               !.kv0 = kv, !.prev = sched,
                               !.minutes = DictGet(settings, "full_sync_interval_minutes",
                                                   DEFAULT_FULL_SYNC_MINUTES)]
    IN IF due = "True"
       THEN StartRun(p, run) /\ UNCHANGED adm
       ELSE /\ fs[p].pc = "idle"
            /\ budget.runs > 0
            /\ budget' = [budget EXCEPT !.runs = @ - 1]
            /\ fs' = [fs EXCEPT ![p] =
                        IF due = "False" THEN [run EXCEPT !.pc = "skipped"]
                        ELSE Fail(run, due)]
            /\ UNCHANGED <<store, probe, now, pages, remote, kv, wh, adm, quiet, calm, remoteAtDone, sched>>

\* -------------------------------------------------------------- environment
\* every invocation in progress has seen the environment change under it
Disturbed(f) ==
    [p \in Procs |-> IF f[p].pc = "idle" THEN f[p]
                     ELSE [f[p] EXCEPT !.tainted = TRUE, !.stirred = TRUE]]

Stirred(f) ==
    [p \in Procs |-> IF f[p].pc = "idle" THEN f[p] ELSE [f[p] EXCEPT !.stirred = TRUE]]

EnvChange ==
    /\ budget.edits > 0
    /\ budget' = [budget EXCEPT !.edits = @ - 1]
    /\ quiet' = 0
    /\ calm' = 0
    /\ fs' = Disturbed(fs)

\* a page's content (title, description, category, ...) is edited upstream
EditPage(id) ==
    /\ pages[id].state = "live"
    /\ EnvChange
    /\ pages' = [pages EXCEPT ![id].rev = 1 - @]
    /\ UNCHANGED <<store, probe, now, remote, kv, wh, adm, remoteAtDone, sched>>

\* a page's date property is set or cleared upstream
SetStart(id) ==
    /\ pages[id].state = "live"
    /\ EnvChange
    /\ pages' = [pages EXCEPT ![id].start = IF @ = Unset THEN Date0 ELSE Unset]
    /\ UNCHANGED <<store, probe, now, remote, kv, wh, adm, remoteAtDone, sched>>

\* a page is archived, deleted, or moved out of its database upstream
MovePage(id, state) ==
    /\ pages[id].state = "live"
    /\ state \in {"archived", "gone", "orphan"}
    /\ EnvChange
    /\ pages' = [pages EXCEPT ![id].state = state]
    /\ UNCHANGED <<store, probe, now, remote, kv, wh, adm, remoteAtDone, sched>>

\* another client removes an event from the calendar
ExternalDelete(id) ==
    /\ id \in DOMAIN remote
    /\ EnvChange
    /\ remote' = DictDel(remote, id)
    /\ UNCHANGED <<store, probe, now, pages, kv, wh, adm, remoteAtDone, sched>>

\* worker.py 84-85, 94: the settings endpoint sets the calendar colour
SetColor(c) ==
    /\ DictGet(kv, "calendar_color", DEFAULT_CALENDAR_COLOR) # c
    /\ EnvChange
    /\ kv' = update_settings(kv, [f \in {"calendar_color"} |-> Some(c)])
    /\ UNCHANGED <<store, probe, now, pages, remote, wh, adm, remoteAtDone, sched>>

\* the derived status of some task the source serves differs at t and t + 1
StatusFlips(t) ==
    \E i \in DOMAIN _collect_tasks :
        /\ Syncable(_collect_tasks[i])
        /\ _status_for_task(_collect_tasks[i], t) # _status_for_task(_collect_tasks[i], t + 1)

Tick ==
    /\ now < MaxTime
    /\ now' = now + 1
    /\ calm' = IF StatusFlips(now) THEN 0 ELSE calm
    /\ fs' = IF StatusFlips(now) THEN Stirred(fs) ELSE fs
    /\ UNCHANGED <<store, probe, pages, remote, kv, wh, adm, quiet, remoteAtDone, sched, budget>>

\* states are the ways of leaving a database that the invocations can tell apart
Environment(states) ==
    \/ \E id \in PageIds : EditPage(id) \/ SetStart(id) \/ ExternalDelete(id)
    \/ \E id \in PageIds, state \in states : MovePage(id, state)
    \/ \E c \in Colors : SetColor(c)
    \/ Tick

\* ------------------------------------------------------------ webhook.handle
WEBHOOK_TOKEN_FIELD == "webhook_verification_token"
Tokens == {"t1", "t2"}
Seeds == {"", "t2"}

\* raw request bodies: not JSON, the empty body, two handshakes (the second
\* with a blank token), and events naming pages
Bodies == {"{bad", "", "hs:t1", "hs: ", "ev:a", "ev:ab", "ev:ba"}

\* str.strip on the tokens of the model
Strip(str) == IF str = " " THEN "" ELSE str

\* a JSON value where the walk looks for a page id: a string, told by its
\* leading characters (sign), the hexadecimal digits that follow folded to
\* lower case (digits), the number of its characters that are neither a dash nor
\* surrounding white space (len), and whether it has dashes, upper-case digits
\* or white space around it; or a value that is no string
IdText(sign, digits, len, dashes, upper, padded) ==
    [isstr |-> TRUE, sign |-> sign, digits |-> digits, len |-> len, dashes |-> dashes,
     upper |-> upper, padded |-> padded]
NoIdText == [isstr |-> FALSE]
EmptyIdText == IdText("", "", 0, FALSE, FALSE, FALSE)

UUID_HEX_LEN == 32

Dashed(id) == IdText("", id, UUID_HEX_LEN, TRUE, FALSE, FALSE)
Undashed(id) == IdText("", id, UUID_HEX_LEN, FALSE, FALSE, FALSE)

\* what int(hex, 16) takes in front of the digits: nothing, a sign, a radix prefix
IntPrefixes == {"", "+", "0x"}

\* str(uuid.UUID(hex)): the 128-bit number of the digits, written as 32 lower-case
\* hexadecimal digits in five dashed groups; a prefix leaves fewer digits, so
\* the number is written with zeros in front
UuidStr(normalized) ==
    CASE normalized.sign = ""   -> normalized.digits
      [] normalized.sign = "+"  -> "0" \o normalized.digits
      [] normalized.sign = "0x" -> "00" \o normalized.digits

\* lines 23-36
_normalize_page_id(value) ==
    IF ~value.isstr THEN None
    ELSE LET candidate == [value EXCEPT !.padded = FALSE]
         IN IF candidate.len = 0 THEN None
            ELSE LET normalized == [candidate EXCEPT !.dashes = FALSE]
                 IN IF normalized.len # UUID_HEX_LEN THEN None
                    ELSE IF normalized.sign \notin IntPrefixes THEN None
                    ELSE Some(UuidStr(normalized))

\* lines 42-45, over the values the walk hands to _append, in its order
RECURSIVE Found(_)
Found(candidates) ==
    IF candidates = << >> THEN << >>
    ELSE LET normalized == _normalize_page_id(Head(candidates))
         IN (IF normalized.some THEN <<normalized.v>> ELSE << >>) \o Found(Tail(candidates))

\* lines 70-77
RECURSIVE Ordered(_, _)
Ordered(found, seen) ==
    IF found = << >> THEN << >>
    ELSE IF Head(found) \in seen THEN Ordered(Tail(found), seen)
    ELSE <<Head(found)>> \o Ordered(Tail(found), seen \cup {Head(found)})

\* lines 113-120: json.loads of the raw body, and what the handler reads of it;
\* ids are the values of the body that the walk of _collect_page_ids visits
json_loads(raw) ==
    CASE raw = "{bad" -> [valid |-> FALSE, verification_token |-> "", ids |-> << >>]
      [] raw = ""     -> [valid |-> TRUE, verification_token |-> "", ids |-> << >>]
      [] raw = "hs:t1" -> [valid |-> TRUE, verification_token |-> "t1", ids |-> << >>]
      [] raw = "hs: " -> [valid |-> TRUE, verification_token |-> " ", ids |-> << >>]
      [] raw = "ev:a" -> [valid |-> TRUE, verification_token |-> "", ids |-> <<Dashed("a")>>]
      [] raw = "ev:ab" -> [valid |-> TRUE, verification_token |-> "",
                           ids |-> <<Dashed("a"), Undashed("b"), Dashed("a")>>]
      [] raw = "ev:ba" -> [valid |-> TRUE, verification_token |-> "",
                           ids |-> <<Undashed("b"), NoIdText, Dashed("a")>>]

\* lines 39-78
_collect_page_ids(data) == Ordered(Found(data.ids), {})

\* hmac.new(key, msg, sha256).hexdigest() behind the 'sha256=' prefix: equal
\* exactly when key and message are
Hmac(key, msg) == <<"sha256=", key, msg>>
NoSig == << >>

\* the signature headers a request may carry with body raw
Sigs(raw) == {NoSig} \cup {Hmac(k, b) : k \in Tokens, b \in {raw, "ev:a"}}

\* the body is not covered by the comparison
SignatureValidKeyOnly(stored_token, raw, sig) == sig # NoSig /\ sig[2] = stored_token

\* lines 150-151
SignatureValid(stored_token, raw, sig) == Hmac(stored_token, raw) = sig

load_webhook_token(ns) == Strip(DictGet(load_settings(ns), WEBHOOK_TOKEN_FIELD, ""))

persist_webhook_token(ns, token) ==
    update_settings(ns, [f \in {WEBHOOK_TOKEN_FIELD} |-> Some(Strip(token))])

\* lines 143-152: the body of the 401 a request is turned away with, "" when
\* it passes
AuthFailure(stored_token, raw, sig) ==
    IF stored_token = "" THEN "Unauthorized - Missing stored verification token"
    ELSE IF sig = NoSig THEN "Unauthorized - No signature"
    ELSE IF ~SignatureValid(stored_token, raw, sig) THEN "Unauthorized - Invalid signature"
    ELSE ""

Response(status, body) == [status |-> status, body |-> body]
NoResponse == Response(0, "")

IdleHook(seed) ==
    [pc |-> "idle", seed |-> seed, raw |-> "", sig |-> NoSig, resp |-> NoResponse,
     page_ids |-> << >>, i |-> 1, calendar_color |-> DEFAULT_CALENDAR_COLOR,
     error |-> "",
     \* history kept for the properties
     invoked |-> FALSE, token0 |-> "", token |-> "", fetched |-> << >>, calls |-> << >>]

Answer(h, status, body) == [h EXCEPT !.pc = "done", !.resp = Response(status, body)]

\* lines 110-156, up to the call of handle_webhook_tasks
WH_Request(raw, sig) ==
    /\ wh.pc = "idle"
    /\ budget.hooks > 0
    /\ budget' = [budget EXCEPT !.hooks = @ - 1]
    /\ LET data == json_loads(raw)
           h == [IdleHook(wh.seed) EXCEPT !.raw = raw, !.sig = sig,
                                          !.token0 = load_webhook_token(kv)]
           unset == load_webhook_token(kv) = ""
           seeded == unset /\ Strip(wh.seed) # ""
           stored_token == IF seeded THEN Strip(wh.seed) ELSE load_webhook_token(kv)
           page_ids == _collect_page_ids(data)
       IN IF data.valid /\ data.verification_token # ""
          THEN IF Strip(data.verification_token) = ""
               THEN /\ wh' = Answer(h, 400, "Invalid verification_token")
                    /\ UNCHANGED kv
               ELSE /\ kv' = persist_webhook_token(kv, Strip(data.verification_token))
                    /\ wh' = Answer(h, 200, Strip(data.verification_token))
          ELSE IF ~data.valid
          THEN /\ wh' = Answer(h, 400, "Invalid JSON")
               /\ UNCHANGED kv
          ELSE /\ kv' = IF seeded THEN persist_webhook_token(kv, Strip(wh.seed)) ELSE kv
               /\ wh' = IF AuthFailure(stored_token, raw, sig) # ""
                        THEN Answer(h, 401, AuthFailure(stored_token, raw, sig))
                        ELSE IF page_ids = << >>
                        THEN Answer([h EXCEPT !.invoked = TRUE, !.token = stored_token],
                                    200, "ok")
                        ELSE [h EXCEPT !.pc = "ensure", !.invoked = TRUE,
                                       !.token = stored_token, !.page_ids = page_ids]
    /\ UNCHANGED <<adm, store, probe, now, pages, remote, fs, quiet, calm, remoteAtDone, sched>>

\* --------------------------------------------------- handle_webhook_tasks
\* notion.get_page: the record served for a page id
get_page(pid) ==
    CASE pages[pid].state = "gone" ->
            [object |-> "error", id |-> NoId, database_id |-> "", archived |-> FALSE,
             start |-> Unset, end |-> Unset, status |-> "", rev |-> 0]
      [] OTHER ->
            [object |-> "page", id |-> pid,
             database_id |-> IF pages[pid].state = "orphan" THEN "" ELSE "db",
             archived |-> pages[pid].state = "archived",
             start |-> pages[pid].start, end |-> Unset,
             status |-> StatusOf(pid), rev |-> pages[pid].rev]

\* the start date is not looked at
ActForIgnoringStart(page) ==
    IF page.database_id = "" THEN "nothing"
    ELSE IF page.archived THEN "delete"
    ELSE "write"

\* lines 332-343: what is done with a fetched page
ActFor(page) ==
    IF page.database_id = "" THEN "nothing"
    ELSE IF page.archived \/ ~HasStart(parse_page_to_task(page)) THEN "delete"
    ELSE "write"

\* the calls of one iteration that may raise
Raisers(act) ==
    CASE act = "nothing" -> {"get_page"}
      [] act = "delete" -> {"get_page", "delete_event"}
      [] act = "write" -> {"get_page", "get_database_title", "put_event"}

\* lines 235-238
WritesEvent(task) == HasStart(task) /\ HasId(task)

\* how the record fetched for a page id looked
KindOf(page) ==
    IF page.object = "error" THEN "gone"
    ELSE IF page.database_id = "" THEN "orphan"
    ELSE IF page.archived THEN "archived"
    ELSE IF page.start = Unset THEN "undated"
    ELSE "dated"

\* lines 324-328
WH_Ensure ==
    /\ wh.pc = "ensure"
    /\ \E established \in BOOLEAN :
         LET settings == calendar_ensure(kv, established)
         IN /\ kv' = settings
            /\ wh' = IF MetadataMissing(settings)
                     THEN [wh EXCEPT !.pc = "failed", !.error = "Calendar metadata missing"]
                     ELSE [wh EXCEPT !.pc = "batch",
                              !.calendar_color =
                                  DictGet(settings, "calendar_color", DEFAULT_CALENDAR_COLOR)]
    /\ UNCHANGED <<adm, store, probe, now, pages, remote, fs, quiet, calm, remoteAtDone, sched, budget>>

\* a write to the calendar by the webhook is a change under a running full sync
HookWrote(act, id) ==
    /\ quiet' = 0
    /\ calm' = 0
    /\ fs' = [p \in Procs |->
                IF fs[p].pc # "diff" THEN Disturbed(fs)[p]
                ELSE [Disturbed(fs)[p] EXCEPT
                        !.hooked = IF act = "write" THEN @ \cup {id} ELSE @ \ {id}]]

\* the batch is walked from its end
NextPageIdBackwards(page_ids, i) == page_ids[Len(page_ids) + 1 - i]

\* line 329: for pid in page_ids
NextPageId(page_ids, i) == page_ids[i]

\* one iteration of the loop of lines 329-344; raised names the call that
\* raises, "" when none does
WH_Page(raised) ==
    /\ wh.pc = "batch"
    /\ wh.i <= Len(wh.page_ids)
    /\ LET pid == NextPageId(wh.page_ids, wh.i)
           page == get_page(pid)
           task == parse_page_to_task(page)
           act == ActFor(page)
           ics == _build_ics_for_task(task, wh.calendar_color, now)
           seen == [wh EXCEPT !.fetched =
                        Append(@, [pid |-> pid,
                                   kind |-> IF raised = "get_page" THEN "raised"
                                            ELSE KindOf(page)])]
           call == [op |-> act, id |-> task.notion_id, task |-> task,
                    \* history: the ledger held this payload's hash and the event existed
                    known |-> /\ task.notion_id \in DOMAIN remote
                              /\ DictGet(DictGet(kv, "event_hashes", EmptyDict),
                                         task.notion_id, NoHash) = _hash_ics_payload(ics)]
       IN /\ raised \in Raisers(act) \cup {""}
          /\ IF raised = "get_page"
             THEN /\ wh' = [seen EXCEPT !.pc = "failed", !.error = raised]
                  /\ UNCHANGED <<remote, quiet, calm, fs>>
             ELSE IF act = "nothing"
             THEN /\ wh' = [seen EXCEPT !.i = @ + 1]
                  /\ UNCHANGED <<remote, quiet, calm, fs>>
             ELSE IF raised = "get_database_title"
             THEN /\ wh' = [seen EXCEPT !.pc = "failed", !.error = raised]
                  /\ UNCHANGED <<remote, quiet, calm, fs>>
             ELSE IF act = "write" /\ ~WritesEvent(task)
             THEN /\ wh' = [seen EXCEPT !.i = @ + 1]
                  /\ UNCHANGED <<remote, quiet, calm, fs>>
             ELSE IF raised # ""
             THEN /\ wh' = [seen EXCEPT !.pc = "failed", !.error = raised,
                                        !.calls = Append(@, call)]
                  /\ UNCHANGED <<remote, quiet, calm, fs>>
             ELSE /\ wh' = [seen EXCEPT !.i = @ + 1, !.calls = Append(@, call)]
                  /\ remote' = IF act = "delete"
                               THEN calendar_delete_event(remote,
                                        _event_url(CalendarHref, task.notion_id))
                               ELSE calendar_put_event(remote,
                                        _event_url(CalendarHref, task.notion_id), ics)
                  /\ HookWrote(act, task.notion_id)
    /\ UNCHANGED <<adm, store, probe, now, pages, kv, remoteAtDone, sched, budget>>

\* the handler records the time of the batch as a synchronisation
WH_FinishStamped ==
    /\ wh.pc = "batch"
    /\ wh.i > Len(wh.page_ids)
    /\ wh' = Answer(wh, 200, "ok")
    /\ kv' = update_settings(kv, [f \in {"last_full_sync"} |-> Some(now)])
    /\ UNCHANGED <<adm, store, probe, now, pages, remote, fs, quiet, calm, remoteAtDone, sched, budget>>

\* lines 157-158: the batch is through, the handler answers
WH_Finish ==
    /\ wh.pc = "batch"
    /\ wh.i > Len(wh.page_ids)
    /\ wh' = Answer(wh, 200, "ok")
    /\ UNCHANGED <<adm, store, probe, now, pages, remote, kv, fs, quiet, calm, remoteAtDone, sched, budget>>

\* the invocation ends: the caller has the response or the exception
WH_Return ==
    /\ wh.pc \in {"done", "failed"}
    /\ wh' = IdleHook(wh.seed)
    /\ UNCHANGED <<adm, store, probe, now, pages, remote, kv, fs, quiet, calm, remoteAtDone, sched, budget>>

Webhook ==
    \/ \E raw \in Bodies : \E sig \in Sigs(raw) : WH_Request(raw, sig)
    \/ WH_Ensure
    \/ \E raised \in {"", "get_page", "delete_event", "get_database_title", "put_event"} :
         WH_Page(raised)
    \/ WH_Finish
    \/ WH_Return

\* ------------------------------------------------------------ worker.fetch
AdminTokens == {"", "adm"}          \* ADMIN_TOKEN of the deployment, "" when not set
Missing == "<missing>"              \* a key the JSON body does not hold
Blank == " "

AdminPaths == {"/admin/full-sync", "/admin/settings"}
Methods == {"GET", "POST", "DELETE"}

\* values a JSON body may give full_sync_interval_minutes: v is what int()
\* makes of the value, kind tells what the value is
Integer(n) == [kind |-> "int", v |-> n]
Fraction(n) == [kind |-> "float", v |-> n]      \* n + 0.9, which int() truncates to n
Text == [kind |-> "text", v |-> 0]              \* a string int() rejects
NoInterval == [kind |-> "missing", v |-> 0]
IntervalInputs == {NoInterval, Integer(0), Integer(2), Fraction(0), Fraction(2), Text}

Payloads ==
    [calendar_name : {Missing, "Work", Blank},
     calendar_color : {Missing, "c1"},
     full_sync_interval_minutes : IntervalInputs]

NoPayload ==
    [calendar_name |-> Missing, calendar_color |-> Missing,
     full_sync_interval_minutes |-> NoInterval]

\* the token is compared without asking whether one is configured
HasValidAdminTokenUnguarded(x_admin_token, authorization, token, admin_token) ==
    LET presented == IF x_admin_token # "" THEN x_admin_token
                     ELSE IF authorization # "" THEN authorization
                     ELSE token
    IN presented = admin_token

\* lines 11-20; "" is a header or query parameter that is absent
_has_valid_admin_token(x_admin_token, authorization, token, admin_token) ==
    IF admin_token = "" THEN FALSE
    ELSE LET presented == IF x_admin_token # "" THEN x_admin_token
                          ELSE IF authorization # "" THEN authorization
                          ELSE token
         IN presented = admin_token

\* lines 86-93: "ok" with the minutes to store, or "invalid"
ParseInterval(x) ==
    IF x.kind = "text" THEN [ok |-> FALSE, minutes |-> 0]
    ELSE IF x.v <= 0 THEN [ok |-> FALSE, minutes |-> 0]
    ELSE [ok |-> TRUE, minutes |-> x.v]

\* lines 81-85: str(value).strip() or None
BlankToNone(value) == IF Strip(value) = "" THEN None ELSE Some(value)

\* lines 80-93: the updates a settings body asks for
SettingsUpdates(payload) ==
    LET named == {f \in {"calendar_name", "calendar_color"} : payload[f] # Missing}
                 \cup {f \in {"full_sync_interval_minutes"} : payload[f].kind # "missing"}
    IN [f \in named |->
          IF f = "full_sync_interval_minutes" THEN Some(ParseInterval(payload[f]).minutes)
          ELSE BlankToNone(payload[f])]

IdleAdmin(admin_token) ==
    [pc |-> "idle", admin_token |-> admin_token, path |-> "", method |-> "",
     x_admin_token |-> "", authorization |-> "", token |-> "", payload |-> NoPayload,
     status |-> 0, data |-> EmptyDict,
     \* history kept for the properties
     kv0 |-> EmptyDict, read |-> FALSE, ran |-> FALSE]

\* lines 41-98: one request to an admin path, up to its response or, for an
\* authorized full sync, up to the call of run_full_sync
AdminRequest(path, method, x_admin_token, authorization, token, payload) ==
    LET req == [IdleAdmin(adm.admin_token) EXCEPT
                    !.path = path, !.method = method, !.x_admin_token = x_admin_token,
                    !.authorization = authorization, !.token = token,
                    !.payload = payload, !.kv0 = kv]
        valid == _has_valid_admin_token(x_admin_token, authorization, token, adm.admin_token)
        answer(status) == [req EXCEPT !.pc = "done", !.status = status]
        quietly == UNCHANGED <<store, probe, now, pages, remote, kv, fs, wh, quiet, calm, remoteAtDone,
                               sched>>
    IN /\ adm.pc = "idle"
       /\ budget.hooks > 0
       /\ IF path = "/admin/full-sync" /\ method = "POST" /\ valid
          THEN /\ StartRun(1, [IdleRun EXCEPT !.trigger = "admin"])
               /\ adm' = [req EXCEPT !.pc = "sync", !.ran = TRUE]
          ELSE /\ budget' = [budget EXCEPT !.hooks = @ - 1]
               /\ IF path = "/admin/full-sync"
                  THEN /\ adm' = answer(IF method = "POST" THEN 401 ELSE 404)
                       /\ quietly
                  ELSE IF ~valid
                  THEN /\ adm' = answer(401)
                       /\ quietly
                  ELSE IF method = "GET"
                  THEN /\ adm' = [answer(200) EXCEPT !.read = TRUE,
                                                     !.data = load_settings(kv)]
                       /\ quietly
                  ELSE IF method = "POST"
                  THEN IF ~ParseInterval(payload.full_sync_interval_minutes).ok
                          /\ payload.full_sync_interval_minutes.kind # "missing"
                       THEN /\ adm' = answer(400)
                            /\ quietly
                       ELSE /\ kv' = IF DOMAIN SettingsUpdates(payload) = {} THEN kv
                                     ELSE update_settings(kv, SettingsUpdates(payload))
                            /\ adm' = [answer(200) EXCEPT !.read = TRUE, !.data = kv']
                            /\ UNCHANGED <<store, probe, now, pages, remote, fs, wh, quiet, calm,
                                           remoteAtDone, sched>>
                  ELSE /\ adm' = answer(405)
                       /\ quietly

\* line 60-61: run_full_sync has returned or raised; the request is answered
AdminSyncReturn ==
    /\ adm.pc = "sync"
    /\ fs[1].pc \in {"done", "failed"}
    /\ adm' = [adm EXCEPT !.pc = "done",
                          !.status = IF fs[1].pc = "done" THEN 200 ELSE 500,
                          !.data = fs[1].result]
    /\ UNCHANGED <<store, probe, now, pages, remote, kv, fs, wh, quiet, calm, remoteAtDone, sched, budget>>

\* the full sync of an answered request ends
AdminRunReturn ==
    /\ adm.pc # "sync"
    /\ FS_Return(1)

AdminReturn ==
    /\ adm.pc = "done"
    /\ adm' = IdleAdmin(adm.admin_token)
    /\ UNCHANGED <<store, probe, now, pages, remote, kv, fs, wh, quiet, calm, remoteAtDone, sched, budget>>

Admin ==
    \/ \E path \in AdminPaths, method \in Methods :
       \E x_admin_token \in {"", "adm", "bad"}, authorization \in {"", "adm"},
          token \in {"", "adm"} :
       \E payload \in (IF path = "/admin/settings" /\ method = "POST"
                        THEN Payloads ELSE {NoPayload}) :
          AdminRequest(path, method, x_admin_token, authorization, token, payload)
    \/ AdminSyncReturn
    \/ AdminReturn

\* ------------------------------------------- settings store, record by record
SETTINGS_KEY == "settings"
SettingFields == <<"calendar_name", "calendar_color">>
Callers == {1, 2}
Null == "null"                      \* JSON null in the legacy record
OldValue == "v0"                    \* what the store holds before the calls of the model

\* json.dumps and json.loads of a field value; a record another writer left
\* that is not JSON is loaded as the text it is (lines 153-156)
Encode(value) == [json |-> TRUE, v |-> value]
Decode(raw) == raw.v

NoLegacy == [kind |-> "absent", data |-> EmptyDict]
LegacyObject(data) == [kind |-> "object", data |-> data]

\* what the key "settings" may hold: nothing, text that is not JSON, or a JSON
\* object giving some fields a value or (the first of them) null
LegacyRecords ==
    {NoLegacy, [kind |-> "invalid", data |-> EmptyDict]}
        \cup {LegacyObject([f \in fields |-> val[f]]) :
                fields \in SUBSET Range(SettingFields),
                val \in {v \in [Range(SettingFields) -> {Null, OldValue}] :
                            v[SettingFields[2]] = OldValue}}

\* the elements of seq that are in keep, in the order of seq
Filter(seq, keep) == SelectSeq(seq, LAMBDA f : f \in keep)

\* the mapping of the per-field records present, decoded
Decoded(fields) == [f \in DOMAIN fields |-> Decode(fields[f])]

IdleCall ==
    [pc |-> "idle", op |-> "", updates |-> EmptyDict, todo |-> << >>, data |-> EmptyDict,
     settings |-> EmptyDict, result |-> EmptyDict, n |-> 0,
     \* history: what the caller's previous call, an update_settings, was given
     prev |-> EmptyDict]

\* a caller enters load_settings or update_settings (lines 140-143, 172-175)
KV_Call(c, op, updates) ==
    /\ store.calls[c].pc \in {"idle", "returned"}
    /\ store.left > 0
    /\ LET named == Filter(SettingFields, DOMAIN updates)
           call == [IdleCall EXCEPT !.op = op, !.updates = updates, !.todo = named,
                                    !.n = store.calls[c].n + 1,
                                    !.prev = IF store.calls[c].op = "update"
                                             THEN store.calls[c].updates ELSE EmptyDict]
       IN store' = [store EXCEPT
                !.left = @ - 1,
                !.written = @ \/ (op = "update" /\ named # << >>),
                !.calls[c] = [call EXCEPT !.pc = IF op = "update" /\ named # << >>
                                                 THEN "write" ELSE "migrate"]]
    /\ UNCHANGED <<engine, probe>>

\* one iteration of the loop of lines 175-179: _remove_field or _write_field
US_Write(c) ==
    LET call == store.calls[c]
        key == Head(call.todo)
        value == call.updates[key]
    IN /\ call.pc = "write"
       /\ store' = [store EXCEPT
                !.fields = IF value.some THEN DictSet(@, key, Encode(value.v))
                           ELSE DictDel(@, key),
                !.calls[c] = [call EXCEPT !.todo = Tail(@),
                                          !.pc = IF Len(call.todo) = 1 THEN "migrate" ELSE @]]
       /\ UNCHANGED <<engine, probe>>

\* the fields of the legacy record that migration writes, null ones included
MigratedFieldsWithNulls(data) == DOMAIN data

\* lines 133-135: the fields of the legacy record that migration writes
MigratedFields(data) == {f \in DOMAIN data : data[f] # Null}

\* _migrate_legacy, lines 124-132: the legacy record is read
LS_Legacy(c) ==
    LET call == store.calls[c]
        todo == Filter(SettingFields, MigratedFields(store.legacy.data))
    IN /\ call.pc = "migrate"
       /\ store' = [store EXCEPT !.calls[c] =
                IF store.legacy.kind = "object"
                THEN [call EXCEPT !.data = store.legacy.data, !.todo = todo,
                                  !.pc = IF todo = << >> THEN "unlink" ELSE "copy"]
                ELSE [call EXCEPT !.pc = "list"]]
       /\ UNCHANGED <<engine, probe>>

\* one iteration of the loop of lines 133-136
LS_Copy(c) ==
    LET call == store.calls[c]
        field == Head(call.todo)
    IN /\ call.pc = "copy"
       /\ store' = [store EXCEPT
                !.fields = DictSet(@, field, Encode(call.data[field])),
                !.calls[c] = [call EXCEPT !.todo = Tail(@),
                                          !.pc = IF Len(call.todo) = 1 THEN "unlink" ELSE @]]
       /\ UNCHANGED <<engine, probe>>

\* line 137: the legacy record is removed
LS_Unlink(c) ==
    /\ store.calls[c].pc = "unlink"
    /\ store' = [store EXCEPT !.legacy = NoLegacy, !.calls[c].pc = "list"]
    /\ UNCHANGED <<engine, probe>>

\* lines 144-147: the keys under the prefix are listed
LS_List(c) ==
    LET call == store.calls[c]
        field_keys == Filter(SettingFields, DOMAIN store.fields)
    IN /\ call.pc = "list"
       /\ store' = [store EXCEPT !.calls[c] =
                [call EXCEPT !.todo = field_keys, !.settings = EmptyDict,
                             !.result = EmptyDict,
                             !.pc = IF field_keys = << >> THEN "done" ELSE "get"]]
       /\ UNCHANGED <<engine, probe>>

\* one iteration of the loop of lines 148-156: a key that has gone since the
\* listing is passed over
LS_Get(c) ==
    LET call == store.calls[c]
        field == Head(call.todo)
        settings == IF field \in DOMAIN store.fields
                    THEN DictSet(call.settings, field, Decode(store.fields[field]))
                    ELSE call.settings
        last == Len(call.todo) = 1
    IN /\ call.pc = "get"
       /\ store' = [store EXCEPT !.calls[c] =
                [call EXCEPT !.todo = Tail(@), !.settings = settings,
                             !.result = IF last THEN settings ELSE @,
                             !.pc = IF last THEN "done" ELSE @]]
       /\ UNCHANGED <<engine, probe>>

\* lines 157, 180: the caller has the mapping
KV_Return(c) ==
    /\ store.calls[c].pc = "done"
    /\ store' = [store EXCEPT !.calls[c].pc = "returned"]
    /\ UNCHANGED <<engine, probe>>

\* the updates caller c may ask for: each field left out, given null, or given
\* the caller's own value
ValueOf(c) == IF c = 1 THEN "v1" ELSE "v2"
UpdatesOf(c) ==
    {[f \in fields |-> IF f \in nulls THEN None ELSE Some(ValueOf(c))] :
        fields \in SUBSET Range(SettingFields), nulls \in SUBSET Range(SettingFields)}

StoreCall(c) ==
    \/ KV_Call(c, "load", EmptyDict)
    \/ \E updates \in UpdatesOf(c) : KV_Call(c, "update", updates)
    \/ US_Write(c) \/ LS_Legacy(c) \/ LS_Copy(c) \/ LS_Unlink(c)
    \/ LS_List(c) \/ LS_Get(c) \/ KV_Return(c)

NoStore == [legacy |-> NoLegacy, fields |-> EmptyDict, init |-> [legacy |-> NoLegacy, fields |-> EmptyDict], written |-> FALSE,
            left |-> 0, calls |-> [c \in Callers |-> IdleCall]]

\* no function is being applied
NoProbe == [fn |-> ""]

\* ----------------------------------------------------------- notion.py paging
MaxResults == 3                     \* records the source serves to one listing
Cursors == {"", "c1", "c2"}         \* next_cursor of a response, "" when it has none
Items == {[id |-> "d1"], [id |-> NoId]}
Pagers == {"list_databases", "query_database_pages"}

\* the responses of the source: some records, has_more, next_cursor; an error
\* body has no results and no has_more
Responses ==
    {[results |-> results, has_more |-> has_more, next_cursor |-> next_cursor] :
        results \in {<< >>} \cup {<<item>> : item \in Items},
        has_more \in BOOLEAN, next_cursor \in Cursors}

\* list_databases lines 62-72: an entry without an id is dropped;
\* query_database_pages line 144: every record is taken
Taken(fn, results) ==
    IF fn = "list_databases" THEN SelectSeq(results, LAMBDA db : db.id # NoId) ELSE results

\* lines 73-78 and 145-150: the loop goes on while the response says has_more
\* and gives a cursor
Continues(data) == data.has_more /\ data.next_cursor # ""

IdlePager(fn) ==
    [fn |-> fn, pc |-> "request", next_cursor |-> "", out |-> << >>, served |-> << >>,
     turn |-> 0]

\* one iteration of the loop: the request goes out with the cursor held, the
\* response data comes back
Page(data) ==
    /\ probe.pc = "request"
    /\ Len(probe.served) + Len(data.results) <= MaxResults
    /\ probe' = [probe EXCEPT
            !.out = @ \o Taken(probe.fn, data.results),
            !.served = @ \o data.results,
            !.turn = 1 - @,
            !.next_cursor = IF data.has_more THEN data.next_cursor ELSE @,
            !.pc = IF Continues(data) THEN "request" ELSE "done"]
    /\ UNCHANGED <<engine, store>>

\* lines 79, 151: the caller has the list
PagerReturn ==
    /\ probe.pc = "done"
    /\ probe' = [probe EXCEPT !.pc = "returned"]
    /\ UNCHANGED <<engine, store>>

\* ------------------------------------------------- rendering, on its own
LastInstant == InstantsPerDay * (MaxDay + 1) - 1

\* the status names a page may carry: canonical ones, one that maps to none,
\* and none at all
StatusInputs == {"Todo", "In progress", "Completed", "Cancelled", "Someday", ""}

DateInputs ==
    {Unset, BadDate, Date0}
        \cup {DateOnly(day) : day \in 0..MaxDay}
        \cup {Naive(at) : at \in 0..LastInstant}
        \cup {Aware(at, 1) : at \in 1..LastInstant}

TaskInputs ==
    {[notion_id |-> "a", start_date |-> start, end_date |-> end, status |-> status, rev |-> 0] :
        start \in DateInputs, end \in DateInputs, status \in StatusInputs}

IdleRender(task, color) == [fn |-> "render", task |-> task, color |-> color, calls |-> << >>]

\* _build_ics_for_task is called, as lines 291-292 and 239-240 call it
Render ==
    /\ probe.fn = "render"
    /\ Len(probe.calls) < MaxRenders
    /\ LET ics == _build_ics_for_task(probe.task, probe.color, now)
       IN probe' = [probe EXCEPT !.calls = Append(@,
                        [at |-> now, status |-> _status_for_task(probe.task, now),
                         ics |-> ics, hash |-> _hash_ics_payload(ics)])]
    /\ UNCHANGED <<store, pages, remote, kv, fs, wh, quiet, calm, remoteAtDone, sched, adm,
                   budget, now>>

\* time passes between two calls
Pass ==
    /\ probe.fn = "render"
    /\ now <= LastInstant
    /\ now' = now + 1
    /\ UNCHANGED <<store, probe, pages, remote, kv, fs, wh, quiet, calm, remoteAtDone, sched,
                   adm, budget>>

\* ------------------------------------------- webhook id extraction, on its own
MaxFound == 2

\* the values a payload may carry where a page id is looked for: for each page,
\* its id dashed, undashed, in upper case, with white space around it, behind a
\* sign, behind '0x', in braces, with a letter that is no digit, one character
\* short, and 32 digits behind '0x'; the empty string; a value that is no string
IdInputs ==
    {NoIdText, EmptyIdText}
        \cup {Dashed(id) : id \in PageIds}
        \cup {Undashed(id) : id \in PageIds}
        \cup {IdText("", id, UUID_HEX_LEN, TRUE, TRUE, FALSE) : id \in PageIds}
        \cup {IdText("", id, UUID_HEX_LEN, FALSE, FALSE, TRUE) : id \in PageIds}
        \cup {IdText(sign, id, UUID_HEX_LEN, FALSE, FALSE, FALSE) :
                sign \in {"+", "0x", "{", "z"}, id \in PageIds}
        \cup {IdText("", id, UUID_HEX_LEN - 1, TRUE, FALSE, FALSE) : id \in PageIds}
        \cup {IdText("0x", id, UUID_HEX_LEN + 2, FALSE, FALSE, FALSE) : id \in PageIds}

IdPayloads == UNION {[1..n -> IdInputs] : n \in 0..MaxFound}

IdleCollect(payload) ==
    [fn |-> "_collect_page_ids", pc |-> "called", payload |-> payload, out |-> << >>]

\* _collect_page_ids(data), as webhook.py line 154 calls it
Collect ==
    /\ probe.fn = "_collect_page_ids"
    /\ probe.pc = "called"
    /\ probe' = [probe EXCEPT !.pc = "returned",
                              !.out = _collect_page_ids([ids |-> probe.payload])]
    /\ UNCHANGED <<store, pages, remote, kv, fs, wh, quiet, calm, remoteAtDone, sched, adm,
                   budget, now>>

\* ---------------------------------------------------- notion.py page titles
MaxProps == 2
MaxItems == 2

TITLE_PROPERTY == "Title"

\* one entry of a title property's list: an object with its plain_text and
\* the content of its text ("" for a key that is absent or null), or a value
\* that is no object
TextItem(plain_text, content) ==
    [isdict |-> TRUE, plain_text |-> plain_text, content |-> content]
NotDict == [isdict |-> FALSE]

\* a property object with its type and its title list; {} has neither
Prop(type, title) == [isdict |-> TRUE, type |-> type, title |-> title]
EmptyProp == Prop("", << >>)

\* props.get(name, {}) on the properties of a page, kept in the order served
RECURSIVE PropGet(_, _)
PropGet(props, name) ==
    IF props = << >> THEN EmptyProp
    ELSE IF Head(props).name = name THEN Head(props).value
    ELSE PropGet(Tail(props), name)

\* lines 167-172: the texts that are kept
RECURSIVE Parts(_)
Parts(text_items) ==
    IF text_items = << >> THEN << >>
    ELSE LET item == Head(text_items)
             text == IF ~item.isdict THEN ""
                     ELSE IF item.plain_text # "" THEN item.plain_text ELSE item.content
         IN (IF text # "" THEN <<text>> ELSE << >>) \o Parts(Tail(text_items))

\* "".join(parts)
RECURSIVE Join(_)
Join(parts) == IF parts = << >> THEN "" ELSE Head(parts) \o Join(Tail(parts))

\* str.strip, on texts that are either blank or without white space
RECURSIVE StripParts(_)
StripParts(parts) ==
    IF parts = << >> THEN parts
    ELSE IF Head(parts) = " " THEN StripParts(Tail(parts))
    ELSE IF parts[Len(parts)] = " " THEN StripParts(SubSeq(parts, 1, Len(parts) - 1))
    ELSE parts

\* lines 162-173
ExtractTitleUnstripped(prop) ==
    IF ~prop.isdict \/ prop.type # "title" THEN ""
    ELSE Join(Parts(prop.title))
_extract_title_from_prop(prop) ==
    IF ~prop.isdict \/ prop.type # "title" THEN ""
    ELSE Join(StripParts(Parts(prop.title)))

\* lines 181-186: the loop over props.values(), which skips the configured
\* property and stops at the first title
RECURSIVE FirstTitle(_)
FirstTitle(props) ==
    IF props = << >> THEN ""
    ELSE IF Head(props).name = TITLE_PROPERTY THEN FirstTitle(Tail(props))
    ELSE LET title == _extract_title_from_prop(Head(props).value)
         IN IF title # "" THEN title ELSE FirstTitle(Tail(props))

\* lines 177-188 of parse_page_to_task: the title of the task
PageTitle(page) ==
    LET props == page.properties
        title_prop == PropGet(props, TITLE_PROPERTY)
        title == _extract_title_from_prop(title_prop)
        other == IF title # "" THEN title ELSE FirstTitle(props)
    IN IF other # "" THEN other
       ELSE IF page.id \in {NoId, ""} THEN "Untitled" ELSE page.id

ItemInputs == {NotDict, TextItem(" ", " "), TextItem("A", "A"), TextItem("", "B")}

PropInputs ==
    {NotDict, Prop("rich_text", << >>)}
        \cup {Prop("title", title) : title \in UNION {[1..n -> ItemInputs] : n \in 0..MaxItems}}

PropNames == {TITLE_PROPERTY, "Custom name", "Notes"}

\* the properties of a page: distinct names, in any order
PropLists ==
    {props \in UNION {[1..n -> [name : PropNames, value : PropInputs]] : n \in 0..MaxProps} :
        \A i, j \in DOMAIN props : i # j => props[i].name # props[j].name}

\* raw page records: with an id, with an empty id, without one
RawPages == {[id |-> id, properties |-> props] : id \in {"a", "", NoId}, props \in PropLists}

IdleParse(page) == [fn |-> "parse_page_to_task", pc |-> "called", page |-> page, title |-> ""]

\* parse_page_to_task(page), as the engine calls it on every record
Parse ==
    /\ probe.fn = "parse_page_to_task"
    /\ probe.pc = "called"
    /\ probe' = [probe EXCEPT !.pc = "returned", !.title = PageTitle(probe.page)]
    /\ UNCHANGED <<store, pages, remote, kv, fs, wh, quiet, calm, remoteAtDone, sched, adm,
                   budget, now>>

\* ------------------------------------------------ notion.py database titles
\* the JSON of a metadata response: a database object with its title list,
\* name and id ("" for a key that is absent), an error object, or nothing
\* (an empty body, or one that is no JSON: http_json makes {} of both)
Metadata(object, title, name, id) ==
    [object |-> object, title |-> title, name |-> name, id |-> id]
NoMetadata == Metadata("", << >>, "", "")
ErrorObject == Metadata("error", << >>, "", "")

\* what the HTTP request gives: it raises, or a status and a JSON body
MetaResponse(raised, status, json) == [raised |-> raised, status |-> status, json |-> json]

Returned(value) == [raised |-> FALSE, value |-> value]
Raised == [raised |-> TRUE, value |-> ""]

\* lines 97-100: the first text of the title entries, "" when there is none;
\* an entry that is no object raises
RECURSIVE FirstText(_)
FirstText(title_entries) ==
    IF title_entries = << >> THEN Returned("")
    ELSE LET entry == Head(title_entries)
         IN IF ~entry.isdict THEN Raised
            ELSE LET text == IF entry.plain_text # "" THEN entry.plain_text ELSE entry.content
                 IN IF text # "" THEN Returned(text) ELSE FirstText(Tail(title_entries))

\* lines 91-104, on the response of get_database (lines 82-88)
get_database_title(response) ==
    IF response.raised THEN Raised
    ELSE LET database == response.json
             text == FirstText(database.title)
         IN IF text.raised \/ text.value # "" THEN text
            ELSE IF database.name # "" THEN Returned(database.name)
            ELSE IF database.id # "" THEN Returned(database.id)
            ELSE Returned("Untitled")

MetadataInputs ==
    {MetaResponse(TRUE, 0, NoMetadata), MetaResponse(FALSE, 200, NoMetadata),
     MetaResponse(FALSE, 404, ErrorObject), MetaResponse(FALSE, 401, ErrorObject)}
        \cup {MetaResponse(FALSE, 200, Metadata("database", title, name, id)) :
                title \in UNION {[1..n -> ItemInputs] : n \in 0..MaxItems},
                name \in {"", "N"}, id \in {"", "d"}}

IdleTitleFetch(response) ==
    [fn |-> "get_database_title", pc |-> "called", response |-> response, result |-> Raised]

\* get_database_title(token, version, database_id), as engine.py line 341 calls it
FetchTitle ==
    /\ probe.fn = "get_database_title"
    /\ probe.pc = "called"
    /\ probe' = [probe EXCEPT !.pc = "returned", !.result = get_database_title(probe.response)]
    /\ UNCHANGED <<store, pages, remote, kv, fs, wh, quiet, calm, remoteAtDone, sched, adm,
                   budget, now>>

\* ---------------------------------------------------- stores.py key listing
MaxKeys == 3                        \* entries the store serves to one listing

\* the entries of a list response: a key with a name, or an entry that gives
\* neither name nor key
Entry(name) == [name |-> name]
NoName == Entry("")
EntryInputs == {Entry("settings:a"), Entry("settings:b"), NoName}

\* what ns.list does: it raises, or gives entries, a cursor ("" when it gives
\* none) and list_complete (True, False, or None when it gives none); a
\* payload that is a list is its entries with no cursor and list_complete True
ListResponse(raised, entries, cursor, list_complete) ==
    [raised |-> raised, entries |-> entries, cursor |-> cursor,
     list_complete |-> list_complete]
ListRaised == ListResponse(TRUE, << >>, "", "None")
ListResponses ==
    {ListRaised}
        \cup {ListResponse(FALSE, entries, cursor, list_complete) :
                entries \in {<< >>} \cup {<<e>> : e \in EntryInputs}
                                     \cup {<<e, f>> : e \in EntryInputs, f \in EntryInputs},
                cursor \in {"", "c1"},
                list_complete \in {"True", "False", "None"}}

\* lines 92-103: the names of the entries, one without a name passed over
RECURSIVE EntryNames(_)
EntryNames(entries) ==
    IF entries = << >> THEN << >>
    ELSE IF Head(entries).name = "" THEN EntryNames(Tail(entries))
    ELSE <<Head(entries).name>> \o EntryNames(Tail(entries))

\* the loop ends only on the first of the three tests
ListBreaksWhenComplete(cursor, list_complete) ==
    cursor = "" /\ list_complete \notin {"False", "None"}

\* lines 104-109: the three tests that end the loop
ListBreaks(cursor, list_complete) ==
    \/ cursor = "" /\ list_complete \notin {"False", "None"}
    \/ cursor = "" /\ list_complete \in {"False", "None"}
    \/ cursor = ""

IdleList ==
    [fn |-> "_kv_list", pc |-> "request", cursor |-> "", keys |-> << >>,
     \* history kept for the properties
     served |-> << >>, asked |-> FALSE, last |-> ListRaised, followed |-> FALSE,
     turn |-> 0]

\* one iteration of the loop of lines 58-109: ns.list is called with the
\* cursor held and raises or answers
ListPage(response) ==
    /\ probe.pc = "request"
    /\ Len(probe.served) + Len(response.entries) <= MaxKeys
    /\ probe' =
          IF response.raised
          THEN [probe EXCEPT !.pc = "done", !.asked = TRUE, !.last = response]
          ELSE [probe EXCEPT
                  !.keys = @ \o EntryNames(response.entries),
                  !.served = @ \o response.entries,
                  !.cursor = response.cursor,
                  !.asked = TRUE,
                  !.last = response,
                  !.turn = 1 - @,
                  !.followed = @ \/ (response.list_complete = "True"
                                       /\ ~ListBreaks(response.cursor, response.list_complete)),
                  !.pc = IF ListBreaks(response.cursor, response.list_complete)
                         THEN "done" ELSE "request"]
    /\ UNCHANGED <<engine, store>>

\* line 110: the caller has the keys
ListReturn ==
    /\ probe.pc = "done"
    /\ probe' = [probe EXCEPT !.pc = "returned"]
    /\ UNCHANGED <<engine, store>>

\* ------------------------------------------------------------ specification
InitEngine ==
    /\ now = 0
    /\ pages = [id \in PageIds |-> [state |-> "live", start |-> IF id = "a" THEN Date0 ELSE Unset,
                                    rev |-> 0]]
    /\ remote = EmptyDict
    /\ fs = [p \in Procs |-> IdleRun]
    /\ quiet = 0
    /\ calm = 0
    /\ remoteAtDone = EmptyDict
    /\ sched = NoSched

\* no store call and no function application is looked at on its own
InitRest ==
    /\ InitEngine
    /\ store = NoStore
    /\ probe = NoProbe

\* a fresh deployment: nothing is stored
InitState ==
    /\ InitRest
    /\ kv = EmptyDict

\* the deployment sets no webhook seed and no admin token
NoSeed == wh = IdleHook("")
NoAdmin == adm = IdleAdmin("")

Init ==
    /\ InitState
    /\ NoSeed
    /\ NoAdmin
    /\ budget = [edits |-> MaxEdits, runs |-> MaxRuns, hooks |-> 0, faults |-> 0]

FullSync(p) ==
    \/ FS_Start(p) \/ FS_List(p) \/ FS_Collect(p) \/ FS_Task(p)
    \/ FS_Cleanup(p) \/ FS_Persist(p) \/ FS_PersistHashes(p) \/ FS_Return(p)

\* a full sync sees an archived, a deleted and a moved page alike: none is served
Next == FullSync(1) \/ Environment({"gone"})

Spec == Init /\ [][Next]_vars

\* webhook requests against a changing task source
InitInc ==
    /\ InitState
    /\ wh \in {IdleHook(seed) : seed \in Seeds}
    /\ NoAdmin
    /\ budget = [edits |-> MaxEdits, runs |-> 0, hooks |-> MaxHooks, faults |-> 0]

NextInc == Webhook \/ Environment({"archived", "gone", "orphan"})

SpecInc == InitInc /\ [][NextInc]_vars

\* full syncs and webhook requests interleaved
InitAll ==
    /\ InitState
    /\ wh = IdleHook("t2")
    /\ NoAdmin
    /\ budget = [edits |-> MixEdits, runs |-> MixRuns, hooks |-> MixHooks, faults |-> 0]

NextAll == FullSync(1) \/ Webhook \/ Environment({"archived", "gone", "orphan"})

SpecAll == InitAll /\ [][NextAll]_vars

\* the settings a deployment may hold when the cron trigger first fires
StoredSettings ==
    {kv0 \in [{"last_full_sync", "full_sync_interval_minutes"} -> {NoDate, Unparseable, NaiveStamp, 0, 1, 2}] :
        /\ kv0["last_full_sync"] \in {NoDate, Unparseable, NaiveStamp, 0}
        /\ kv0["full_sync_interval_minutes"] \in {NoDate} \cup Intervals}

Stored(kv0) == [f \in {g \in DOMAIN kv0 : kv0[g] # NoDate} |-> kv0[f]]

\* cron firings, which the host may overlap, while time passes
InitSched ==
    /\ InitRest
    /\ kv \in {Stored(kv0) : kv0 \in StoredSettings}
    /\ NoSeed
    /\ NoAdmin
    /\ budget = [edits |-> 0, runs |-> MaxRuns, hooks |-> 0, faults |-> 0]

RunSteps(p) ==
    \/ FS_List(p) \/ FS_Collect(p) \/ FS_Task(p)
    \/ FS_Cleanup(p) \/ FS_Persist(p) \/ FS_PersistHashes(p) \/ FS_Return(p)

NextSched == (\E p \in Procs : Scheduled(p) \/ RunSteps(p)) \/ Tick

SpecSched == (InitSched /\ [][NextSched]_vars)

\* requests to the admin endpoints, the full syncs they start running to
\* their end
InitAdmin ==
    /\ InitState
    /\ NoSeed
    /\ adm \in {IdleAdmin(admin_token) : admin_token \in AdminTokens}
    /\ budget = [edits |-> 0, runs |-> AdminRuns, hooks |-> MaxHooks, faults |-> 0]

NextAdmin ==
    \/ Admin
    \/ FS_List(1) \/ FS_Collect(1) \/ FS_Task(1) \/ FS_Cleanup(1) \/ FS_Persist(1)
    \/ FS_PersistHashes(1)
    \/ AdminRunReturn

SpecAdmin == InitAdmin /\ [][NextAdmin]_vars

\* nothing calls the engine, the webhook handler or the worker
Idle ==
    /\ InitEngine
    /\ kv = EmptyDict
    /\ NoSeed
    /\ NoAdmin
    /\ budget = [edits |-> 0, runs |-> 0, hooks |-> 0, faults |-> 0]

\* the records a namespace may hold before the calls of the model
StoredRecords ==
    {[legacy |-> legacy, fields |-> [f \in present |-> Encode(OldValue)]] :
        legacy \in LegacyRecords, present \in {{}, {SettingFields[2]}}}

\* calls of load_settings and update_settings by two callers, their KV
\* operations interleaved
InitStore ==
    /\ Idle
    /\ probe = NoProbe
    /\ \E rec \in StoredRecords :
            store = [NoStore EXCEPT !.legacy = rec.legacy, !.fields = rec.fields,
                                    !.init = rec, !.left = MaxCalls]

NextStore == \E c \in Callers : StoreCall(c)

SpecStore == InitStore /\ [][NextStore]_vars

\* one listing of the task source, the source answering as it likes
InitPager ==
    /\ Idle
    /\ store = NoStore
    /\ probe \in {IdlePager(fn) : fn \in Pagers}

NextPager == (\E data \in Responses : Page(data)) \/ PagerReturn

SpecPager == InitPager /\ [][NextPager]_vars

\* the same, the function running whenever it can
SpecPagerFair == SpecPager /\ WF_vars(NextPager)

\* two full syncs, which nothing keeps from overlapping, against a changing
\* task source
InitOverlap ==
    /\ InitState
    /\ NoSeed
    /\ NoAdmin
    /\ budget = [edits |-> MixEdits, runs |-> MaxRuns, hooks |-> 0, faults |-> 0]

NextOverlap == (\E p \in Procs : FullSync(p)) \/ Environment({"gone"})

SpecOverlap == InitOverlap /\ [][NextOverlap]_vars

\* one task rendered at some times
InitRender ==
    /\ Idle
    /\ store = NoStore
    /\ probe \in {IdleRender(task, color) : task \in TaskInputs, color \in Colors}

NextRender == Render \/ Pass

SpecRender == InitRender /\ [][NextRender]_vars

\* one payload walked for page ids
InitIds ==
    /\ Idle
    /\ store = NoStore
    /\ probe \in {IdleCollect(payload) : payload \in IdPayloads}

NextIds == Collect

SpecIds == InitIds /\ [][NextIds]_vars

\* one raw page record parsed
InitTitle ==
    /\ Idle
    /\ store = NoStore
    /\ probe \in {IdleParse(page) : page \in RawPages}

NextTitle == Parse

SpecTitle == InitTitle /\ [][NextTitle]_vars

\* one database title fetched
InitDbTitle ==
    /\ Idle
    /\ store = NoStore
    /\ probe \in {IdleTitleFetch(response) : response \in MetadataInputs}

NextDbTitle == FetchTitle

SpecDbTitle == InitDbTitle /\ [][NextDbTitle]_vars

\* full syncs and a webhook batch, with pages edited and dated in between
InitConverge ==
    /\ InitState
    /\ wh = IdleHook("t2")
    /\ NoAdmin
    /\ budget = [edits |-> MaxEdits, runs |-> MaxRuns, hooks |-> MixHooks, faults |-> 0]

NextConverge == FullSync(1) \/ Webhook \/ (\E id \in PageIds : EditPage(id) \/ SetStart(id))

SpecConverge == InitConverge /\ [][NextConverge]_vars

\* full syncs over a settings store whose writes may fail
InitFault ==
    /\ InitState
    /\ NoSeed
    /\ NoAdmin
    /\ budget = [edits |-> MixEdits, runs |-> MaxRuns, hooks |-> 0, faults |-> MaxFaults]

NextFault == FullSync(1) \/ Environment({"gone"})

SpecFault == InitFault /\ [][NextFault]_vars

\* one listing of the keys under a prefix, the store answering as it likes and
\* the function running whenever it can
InitList ==
    /\ Idle
    /\ store = NoStore
    /\ probe = IdleList

NextList == (\E response \in ListResponses : ListPage(response)) \/ ListReturn

SpecList == InitList /\ [][NextList]_vars /\ WF_vars(NextList)

\* ------------------------------------------------------------------ properties
\* the ids this run's task list says should exist remotely
SeenIds(r) ==
    {r.tasks[j].notion_id :
        j \in {k \in DOMAIN r.tasks : HasStart(r.tasks[k]) /\ HasId(r.tasks[k])}}

PutIds(r) == {t.notion_id : t \in r.puts}

Ledger(ns) == DictGet(ns, "event_hashes", EmptyDict)

SameLedger(ns1, ns2) ==
    /\ ("event_hashes" \in DOMAIN ns1) = ("event_hashes" \in DOMAIN ns2)
    /\ Ledger(ns1) = Ledger(ns2)
    /\ DictGet(ns1, "last_full_sync", NoDate) = DictGet(ns2, "last_full_sync", NoDate)

\* C1 as stated: a full sync that completes after another one, the task
\* source, the calendar colour and the remote calendar untouched by anybody
\* else since the first one started, issues no put and no delete and leaves
\* the remote events as the first one left them.
C1_Idempotent_AnyClock ==
    \A p \in Procs :
        (fs[p].pc = "done" /\ quiet = 2) =>
            /\ fs[p].puts = {}
            /\ fs[p].deleted = {}
            /\ remote = remoteAtDone

\* C1 amended: the same, provided also that no task's derived status
\* changed (no open task's due time passed) since the first run started.
C1_Idempotent ==
    \A p \in Procs :
        (fs[p].pc = "done" /\ calm = 2) =>
            /\ fs[p].puts = {}
            /\ fs[p].deleted = {}
            /\ fs[p].writes = 0
            /\ fs[p].skipped = SeenIds(fs[p])
            /\ remote = remoteAtDone

C1_Witness ==
    \E p \in Procs : fs[p].pc = "done" /\ calm = 2 /\ fs[p].skipped # {} /\ now > 0

\* C2: every task of the run that has a start and an id and has been handled
\* was put iff the hash of its payload differs from the stored hash or its id
\* was not listed at the start of the run; otherwise it was skipped, and the
\* run counts it so.
C2_WriteDecision ==
    \A p \in Procs :
        LET r == fs[p] IN
        /\ \A j \in 1 .. Min(r.i - 1, Len(r.tasks)) :
             LET task == r.tasks[j] IN
             Syncable(task) =>
                /\ (task \in r.puts) <=>
                       \/ _hash_ics_payload(r.rendered[task.notion_id])
                            # DictGet(r.stored_hashes, task.notion_id, NoHash)
                       \/ task.notion_id \notin r.existing_events
                /\ (task \notin r.puts) <=> (task.notion_id \in r.skipped)
        /\ r.writes = Cardinality(r.puts)
        /\ r.skips = Cardinality(r.skipped)
        /\ \A id \in r.skipped : id \in DOMAIN r.rendered

C2_Witness ==
    \E p \in Procs :
        fs[p].pc = "done" /\ ~fs[p].srcError /\ fs[p].puts # {} /\ fs[p].skipped # {}

\* C3: once cleanup has run, the run has deleted exactly the events listed at
\* its start whose id its task list does not say should exist; at no time has
\* it deleted an event that should exist, and an event whose task it skipped
\* was neither deleted nor put.
C3_CleanupExact ==
    \A p \in Procs :
        LET r == fs[p] IN
        /\ r.pc \in {"persist", "ledger", "done"} => r.deleted = r.existing_events \ SeenIds(r)
        /\ r.deleted \cap SeenIds(r) = {}
        /\ r.deleted \subseteq r.existing_events
        /\ \A id \in r.skipped : id \notin r.deleted /\ id \notin PutIds(r)

C3_Witness ==
    \E p \in Procs :
        fs[p].pc = "done" /\ ~fs[p].srcError /\ fs[p].deleted # {} /\ fs[p].skipped # {}

\* C5: when a full sync has completed, the persisted ledger has as keys exactly
\* the ids of this run's tasks with a start and an id, each mapped to the hash
\* of the payload rendered this run; last_full_sync is the time of the
\* write; the settings the run returns hold both values.
C5_Persist ==
    \A p \in Procs :
        LET r == fs[p] IN
        r.pc = "done" =>
            /\ "event_hashes" \in DOMAIN kv
            /\ DOMAIN kv["event_hashes"] = SeenIds(r)
            /\ \A id \in SeenIds(r) :
                 kv["event_hashes"][id] = _hash_ics_payload(r.rendered[id])
            /\ "last_full_sync" \in DOMAIN kv
            /\ kv["last_full_sync"] = r.persistedAt
            /\ {"event_hashes", "last_full_sync"} \subseteq DOMAIN r.result
            /\ r.result["event_hashes"] = kv["event_hashes"]
            /\ r.result["last_full_sync"] = kv["last_full_sync"]

C5_Witness ==
    \E p \in Procs :
        /\ fs[p].pc = "done"
        /\ ~fs[p].srcError
        /\ fs[p].skipped # {}
        /\ DOMAIN Ledger(fs[p].kv0) \ DOMAIN Ledger(kv) # {}

\* C6: a full sync that has failed has left the persisted ledger and
\* last_full_sync as they were when it started.
C6_NoPartialPersist ==
    \A p \in Procs : fs[p].pc = "failed" => SameLedger(kv, fs[p].kv0)

C6_Witness ==
    \E p \in Procs :
        /\ fs[p].pc = "failed"
        /\ fs[p].error \in {"put_event", "remove_missing_events"}
        /\ ~fs[p].srcError
        /\ fs[p].puts # {}
        /\ "event_hashes" \in DOMAIN fs[p].kv0

\* C7: a run whose task listing met a non-success status ends in failure,
\* deletes nothing and rewrites neither last_full_sync nor the ledger.
C7_SourceErrorFatal ==
    \A p \in Procs :
        fs[p].srcError =>
            /\ fs[p].pc \notin {"persist", "ledger", "done"}
            /\ fs[p].deleted = {}
            /\ SameLedger(kv, fs[p].kv0)

\* C4: a task without a start date or without an id is never put, by a full
\* sync or by a webhook batch; it is not among the ids a full sync hands to
\* cleanup, nor a key of the hashes the run collects and persists.
Placeable(tasks, id) ==
    /\ id # NoId
    /\ \E k \in 1..Len(tasks) : tasks[k].notion_id = id /\ HasStart(tasks[k])

C4_NeverSynchronized ==
    /\ \A p \in Procs :
        LET r == fs[p] IN
        /\ \A task \in r.puts : HasStart(task) /\ HasId(task)
        /\ \A id \in Range(r.updated_ids) : Placeable(r.tasks, id)
        /\ \A id \in DOMAIN r.updated_hashes : Placeable(r.tasks, id)
        /\ r.pc = "done" =>
               \A id \in DOMAIN r.result["event_hashes"] : Placeable(r.tasks, id)
    /\ \A k \in 1..Len(wh.calls) :
        wh.calls[k].op = "write" => HasStart(wh.calls[k].task) /\ HasId(wh.calls[k].task)

C4_Witness ==
    /\ fs[1].pc = "done"
    /\ ~fs[1].srcError
    /\ fs[1].puts # {}
    /\ \E k \in 1..Len(fs[1].tasks) : ~HasStart(fs[1].tasks[k])
    /\ \E k \in 1..Len(fs[1].tasks) : ~HasId(fs[1].tasks[k])
    /\ \E k \in 1..Len(wh.fetched) : wh.fetched[k].kind = "undated"
    /\ wh.pc = "done"

\* C8: for every page of a webhook batch whose fetched record is an error
\* object, is archived, or has no parent database, the batch has issued
\* exactly one delete, at the requested page id, and no put for it.
CallsFor(op, pid) == {j \in 1..Len(wh.calls) : wh.calls[j].op = op /\ wh.calls[j].id = pid}

C8_DeletePath ==
    \A k \in 1..Len(wh.fetched) :
        wh.fetched[k].kind \in {"gone", "archived", "orphan"} =>
            /\ Cardinality(CallsFor("delete", wh.fetched[k].pid)) = 1
            /\ CallsFor("write", wh.fetched[k].pid) = {}

\* C9: when a call made for one page of a webhook batch raises, every page id
\* of the batch has still been fetched by the time the invocation ends.
C9_SiblingsProcessed ==
    (wh.pc = "failed" /\ wh.error \in {"get_page", "delete_event",
                                       "get_database_title", "put_event"}) =>
        Len(wh.fetched) = Len(wh.page_ids)

\* C10: a request that is not a handshake reaches the incremental sync only
\* with a stored token and a signature header equal to the HMAC of its raw
\* body under that token; invalid JSON is answered 400, and a missing token, a
\* missing header or a mismatch 401, with no sync and no calendar call.
IsHandshake(raw) == json_loads(raw).valid /\ json_loads(raw).verification_token # ""

C10_AuthGate ==
    (wh.pc # "idle" /\ ~IsHandshake(wh.raw)) =>
        LET stored == load_webhook_token(kv)
            authentic == /\ stored # ""
                         /\ wh.sig # NoSig
                         /\ wh.sig = Hmac(stored, wh.raw)
        IN /\ wh.invoked => authentic /\ wh.token = stored /\ json_loads(wh.raw).valid
           /\ wh.calls # << >> => wh.invoked
           /\ wh.pc \in {"ensure", "batch", "failed"} => wh.invoked
           /\ wh.pc = "done" =>
                IF ~json_loads(wh.raw).valid
                THEN wh.resp.status = 400 /\ ~wh.invoked
                ELSE IF ~authentic
                THEN wh.resp.status = 401 /\ ~wh.invoked
                ELSE wh.resp.status = 200 /\ wh.invoked

\* a tampered body under the stored token is turned away
C10_Witness ==
    /\ wh.pc = "done"
    /\ wh.resp.status = 401
    /\ wh.sig # NoSig
    /\ wh.sig[2] = load_webhook_token(kv)
    /\ wh.sig[3] # wh.raw
    /\ remote # EmptyDict

\* C11: once a token is stored, a request that is not signed under it does
\* not change the stored token.
C11_HandshakeOnce ==
    (wh.pc = "done" /\ wh.token0 # "" /\ ~SignatureValid(wh.token0, wh.raw, wh.sig)) =>
        load_webhook_token(kv) = wh.token0

\* C12: a request turned away with 401 gets the response it would get with
\* any other stored token, and with none.
C12_NoTokenLeak ==
    (wh.pc = "done" /\ wh.resp.status = 401) =>
        \A other \in Tokens \cup {""} :
            AuthFailure(other, wh.raw, wh.sig) # "" =>
                Response(401, AuthFailure(other, wh.raw, wh.sig)) = wh.resp

\* C13: no step of handle_webhook_tasks changes the persisted event_hashes or
\* last_full_sync.
C13_LedgerFrame ==
    [][(wh.pc \in {"ensure", "batch"} /\ wh' # wh) => SameLedger(kv, kv')]_vars

C13_Witness ==
    /\ wh.pc = "done"
    /\ \E k \in 1..Len(wh.calls) : wh.calls[k].op = "write"
    /\ \E k \in 1..Len(wh.calls) : wh.calls[k].op = "delete"
    /\ Ledger(kv) # EmptyDict
    /\ "last_full_sync" \in DOMAIN kv

\* C14: where no full sync has run, so that none has established calendar
\* metadata, a webhook batch never gets past its first step: no calendar
\* metadata is persisted, and no put or delete is made.
C14_NoCalendarCreation ==
    /\ "calendar_href" \notin DOMAIN kv
    /\ wh.pc # "batch"
    /\ wh.calls = << >>

\* C15: a webhook batch fetches its page ids in input order, one per
\* iteration, and the calendar calls it has made are for pages already
\* fetched, in that same order, at most one for each: the call for a page is
\* over before the next page is fetched.
PositionsOf(ids) == [k \in DOMAIN ids |-> CHOOSE j \in DOMAIN wh.page_ids : wh.page_ids[j] = ids[k]]

C15_Sequential ==
    /\ Len(wh.fetched) <= Len(wh.page_ids)
    /\ \A k \in 1..Len(wh.fetched) : wh.fetched[k].pid = wh.page_ids[k]
    /\ wh.pc = "batch" => wh.i = Len(wh.fetched) + 1
    /\ \A k \in 1..Len(wh.calls) : wh.calls[k].id \in {wh.fetched[j].pid : j \in 1..Len(wh.fetched)}
    /\ LET pos == PositionsOf([k \in 1..Len(wh.calls) |-> wh.calls[k].id])
       IN \A k \in 1..Len(wh.calls) : \A j \in 1..Len(wh.calls) : k < j => pos[k] < pos[j]

C15_Witness ==
    /\ wh.pc = "done"
    /\ wh.page_ids = <<"b", "a">>
    /\ Len(wh.calls) = 2
    /\ wh.calls[1].id = "b"

\* C16: full_sync_due answers True exactly when no last_full_sync is
\* recorded, or the recorded value does not parse as a timestamp, or the time
\* elapsed since it is at least the configured interval (the default when
\* none is configured), and answers False otherwise; it never raises.
Elapsed(settings, t) == t - DictGet(settings, "last_full_sync", NoDate)

C16_SchedulingGate ==
    \A p \in Procs :
        (fs[p].trigger = "scheduled" /\ DOMAIN fs[p].kv0 # {}) =>
            LET settings == fs[p].kv0
                last == DictGet(settings, "last_full_sync", NoDate)
            IN /\ fs[p].due \in {"True", "False"}
               /\ fs[p].due = "True" <=>
                    \/ last = NoDate
                    \/ last = Unparseable
                    \/ (last # NaiveStamp /\ Elapsed(settings, fs[p].firedAt) >= fs[p].minutes)

\* C17 as stated: a firing whose settings are empty or due starts one full
\* sync, any other firing does nothing; and a completed full sync of the
\* scheduled trigger was fired at least the configured interval after the
\* previous completed one was.
GateOpen(r) == DOMAIN r.kv0 = {} \/ r.due = "True"

Untouched(r) ==
    /\ r.existing_events = {}
    /\ r.tasks = << >>
    /\ r.puts = {}
    /\ r.deleted = {}
    /\ r.result = EmptyDict
    /\ r.persistedAt = NoDate

C17_GateOnly ==
    \A p \in Procs :
        fs[p].trigger = "scheduled" =>
            /\ GateOpen(fs[p]) => fs[p].pc # "skipped"
            /\ ~GateOpen(fs[p]) => fs[p].pc \in {"skipped", "failed"} /\ Untouched(fs[p])

C17_ScheduledGate_AnyOverlap ==
    /\ C17_GateOnly
    /\ \A p \in Procs :
        (fs[p].trigger = "scheduled" /\ fs[p].pc = "done" /\ sched.start # NoDate) =>
            fs[p].firedAt - sched.start >= fs[p].minutes

\* C17: the same, the second part for a completed full sync and the full
\* sync of the scheduled trigger that had last completed when it was fired.
C17_ScheduledGate ==
    /\ C17_GateOnly
    /\ \A p \in Procs :
        (fs[p].trigger = "scheduled" /\ fs[p].pc = "done" /\ fs[p].prev.start # NoDate) =>
            /\ fs[p].firedAt - fs[p].prev.end >= fs[p].minutes
            /\ fs[p].firedAt - fs[p].prev.start >= fs[p].minutes

C17_Witness ==
    \E p \in Procs :
        /\ fs[p].trigger = "scheduled"
        /\ fs[p].pc = "done"
        /\ fs[p].prev.start # NoDate
        /\ fs[p].firedAt > fs[p].prev.end
        /\ fs[p].puts # {}

\* C18 as stated: an admin request makes a full sync run, reads the settings
\* or changes them only if a token it presents is the configured admin
\* token; every other request to an admin path is answered 401 and reads,
\* runs and changes nothing, as is every request when no token is configured.
Presents(a) ==
    a.admin_token # "" /\ a.admin_token \in {a.x_admin_token, a.authorization, a.token}

Served(a) == a.read \/ a.ran \/ a.status \in {200, 400, 405, 500}

TurnedAway(a, status) ==
    /\ a.status = status
    /\ ~a.read
    /\ ~a.ran
    /\ kv = a.kv0
    /\ a.data = EmptyDict

C18_AdminGate_AnyMethod ==
    /\ adm.pc # "idle" => (Served(adm) => Presents(adm))
    /\ (adm.pc = "done" /\ ~Presents(adm)) => TurnedAway(adm, 401)
    /\ \A p \in Procs : fs[p].trigger = "admin" => adm.ran \/ adm.pc \in {"idle", "done"}

\* C18: the same for a POST to /admin/full-sync and for every request to
\* /admin/settings; a request to /admin/full-sync with another method is
\* answered 404 and reads, runs and changes nothing.
Routed(a) == a.path = "/admin/settings" \/ a.method = "POST"

C18_AdminGate ==
    /\ adm.pc # "idle" => (Served(adm) => Presents(adm) /\ Routed(adm))
    /\ (adm.pc = "done" /\ Routed(adm) /\ ~Presents(adm)) => TurnedAway(adm, 401)
    /\ (adm.pc = "done" /\ ~Routed(adm)) => TurnedAway(adm, 404)
    /\ adm.pc = "sync" => Presents(adm) /\ fs[1].trigger = "admin"
    /\ \A p \in Procs : fs[p].trigger # "none" => fs[p].trigger = "admin"

C18_Witness ==
    /\ adm.pc = "done"
    /\ adm.path = "/admin/settings"
    /\ adm.status = 401
    /\ adm.admin_token = "adm"
    /\ adm.x_admin_token = "bad"
    /\ adm.token = "adm"
    /\ "calendar_name" \in DOMAIN kv

\* C19: a settings POST whose full_sync_interval_minutes is given and is not
\* a positive integer is answered 400 and changes no field; the stored
\* full_sync_interval_minutes is a positive integer.
IsPositiveInteger(x) == x.kind = "int" /\ x.v > 0

C19_IntervalValidated ==
    /\ (/\ adm.pc = "done"
        /\ adm.path = "/admin/settings"
        /\ adm.method = "POST"
        /\ adm.status # 401
        /\ adm.payload.full_sync_interval_minutes.kind # "missing"
        /\ ~IsPositiveInteger(adm.payload.full_sync_interval_minutes)) =>
            adm.status = 400 /\ kv = adm.kv0
    /\ "full_sync_interval_minutes" \in DOMAIN kv => kv["full_sync_interval_minutes"] > 0

\* the store holds for field f what the update u asked for
Holds(f, u) ==
    IF u.some THEN f \in DOMAIN store.fields /\ Decode(store.fields[f]) = u.v
    ELSE f \notin DOMAIN store.fields

Named(c) == DOMAIN store.calls[c].updates

\* the two callers have each made one call, an update_settings naming
\* fields the other does not name, and both calls have returned
DisjointUpdatesDone ==
    /\ \A c \in Callers : /\ store.calls[c].pc = "returned"
                          /\ store.calls[c].op = "update"
                          /\ store.calls[c].n = 1
                          /\ Named(c) # {}
    /\ Named(1) \cap Named(2) = {}

\* C21: when two update_settings calls naming disjoint sets of fields have
\* both returned, whatever the order their KV operations took, every field
\* holds what the call that named it wrote: its value, or nothing for a null.
C21_NoLostUpdate ==
    DisjointUpdatesDone =>
        \A c \in Callers : \A f \in Named(c) : Holds(f, store.calls[c].updates[f])

\* the same on a store that holds no legacy record to migrate
C21_NoLostUpdate_NoLegacy ==
    store.init.legacy.kind # "object" => C21_NoLostUpdate

\* the per-field mapping a store comes to when its legacy record is migrated
Migrated(rec) ==
    LET moved == {f \in DOMAIN rec.legacy.data : rec.legacy.data[f] # Null}
    IN [f \in DOMAIN rec.fields \cup moved |->
            IF f \in moved THEN rec.legacy.data[f] ELSE Decode(rec.fields[f])]

\* C22: on a store that held a legacy record and that only load_settings has
\* been called on, every load that has got its result has the non-null
\* fields of the legacy record (with the per-field records there were), the
\* legacy record is gone and the per-field records are that mapping: the
\* first load and every later one return the same.
C22_LegacyMigration ==
    (store.init.legacy.kind = "object" /\ ~store.written) =>
        \A c \in Callers :
            store.calls[c].pc \in {"done", "returned"} =>
                /\ store.calls[c].result = Migrated(store.init)
                /\ store.legacy = NoLegacy
                /\ Decoded(store.fields) = Migrated(store.init)

\* a second load by the caller whose first load migrated a record with a
\* value and a null
C22_Witness ==
    /\ store.init.legacy.kind = "object"
    /\ store.init.fields = EmptyDict
    /\ \E f, g \in DOMAIN store.init.legacy.data :
            store.init.legacy.data[f] = Null /\ store.init.legacy.data[g] # Null
    /\ ~store.written
    /\ \E c \in Callers : /\ store.calls[c].n = 2
                          /\ store.calls[c].pc = "returned"
                          /\ store.calls[c].result = Migrated(store.init)
                          /\ store.calls[c].result # EmptyDict

\* C20: an update_settings call that nothing overlaps has, when it returns,
\* set every field it was given a value for and removed every field it was
\* given None for; every other field is as load_settings showed it before
\* the call; and the call returns what load_settings then returns.
C20_PartialUpdate ==
    \A c \in Callers :
        LET call == store.calls[c]
            before == Migrated(store.init)
        IN (/\ store.left = MaxCalls - 1
            /\ call.op = "update"
            /\ DOMAIN call.updates # {}
            /\ call.pc = "returned") =>
                /\ \A f \in DOMAIN call.updates : Holds(f, call.updates[f])
                /\ \A f \in (DOMAIN before \cup DOMAIN store.fields) \ DOMAIN call.updates :
                        /\ f \in DOMAIN before
                        /\ f \in DOMAIN store.fields
                        /\ Decode(store.fields[f]) = before[f]
                /\ call.result = Decoded(store.fields)

\* a listing of pages that has ended returns the records of every response
\* it was served, in order
PagesInOrder ==
    probe.fn = "query_database_pages" /\ probe.pc \in {"done", "returned"} =>
        probe.out = probe.served

\* C23: a listing comes to its end and returns, whatever the responses of the
\* source are.
C23_Terminates == probe.fn \in Pagers ~> probe.pc = "returned"

MetadataError == "Calendar metadata missing"

\* the run of process p has come to nothing: no listing, no task, no put, no
\* delete, no ledger
RunEmpty(r) ==
    /\ r.existing_events = {}
    /\ r.tasks = << >>
    /\ r.puts = {}
    /\ r.deleted = {}
    /\ r.updated_ids = << >>
    /\ r.persistedAt = NoDate

\* C24: when calendar ensure has returned settings without a calendar href,
\* run_full_sync and handle_webhook_tasks fail there with 'Calendar metadata
\* missing', having listed, fetched, put, deleted and written nothing; an
\* invocation that has failed so does nothing more until it returns.
C24_MetadataFatal ==
    [][/\ \A p \in Procs :
            /\ (/\ fs[p].pc = "idle"
                /\ fs'[p].pc \in {"list", "failed"}
                /\ fs'[p].due # "TypeError"
                /\ "calendar_href" \notin DOMAIN kv') =>
                    /\ fs'[p].pc = "failed"
                    /\ fs'[p].error = MetadataError
                    /\ RunEmpty(fs'[p])
                    /\ kv' = kv
                    /\ remote' = remote
            /\ fs[p].error = MetadataError =>
                    \/ fs'[p] = IdleRun
                    \/ fs'[p].pc = "failed" /\ fs'[p].error = MetadataError /\ RunEmpty(fs'[p])
       /\ (wh.pc = "ensure" /\ wh'.pc # "ensure" /\ "calendar_href" \notin DOMAIN kv') =>
            /\ wh'.pc = "failed"
            /\ wh'.error = MetadataError
            /\ wh'.fetched = << >>
            /\ wh'.calls = << >>
            /\ kv' = kv
            /\ remote' = remote
       /\ wh.error = MetadataError => wh' \in {wh, IdleHook(wh.seed)}]_vars

\* a full sync and a webhook batch have both failed for want of the metadata
C24_Witness ==
    /\ fs[1].pc = "failed"
    /\ fs[1].error = MetadataError
    /\ wh.pc = "failed"
    /\ wh.error = MetadataError
    /\ wh.page_ids # << >>
    /\ "calendar_href" \notin DOMAIN kv

\* process p writes event_hashes in this step
WritesLedger(p) == fs[p].pc = "ledger" /\ fs'[p].pc = "done"

\* C25: the persisted event_hashes changes only when a full sync writes it,
\* and is then exactly the mapping that full sync computed: after overlapping
\* full syncs it is the whole mapping of the one that wrote last, with no key
\* or hash of the other merged in.
C25_LastWriterWins ==
    [][/\ \A p \in Procs :
            WritesLedger(p) => /\ "event_hashes" \in DOMAIN kv'
                               /\ kv'["event_hashes"] = fs[p].updated_hashes
       /\ (\A p \in Procs : ~WritesLedger(p)) => Ledger(kv') = Ledger(kv)]_vars

\* two full syncs that both started before either wrote have both completed
\* with different mappings, the second process having written last
C25_Witness ==
    /\ \A p \in Procs : fs[p].pc = "done" /\ fs[p].stored_hashes = EmptyDict
    /\ DOMAIN fs[1].updated_hashes # {}
    /\ DOMAIN fs[2].updated_hashes # DOMAIN fs[1].updated_hashes
    /\ Ledger(kv) = fs[2].updated_hashes

\* the canonical status a stored status name stands for, Todo when it stands
\* for none
Canonical(status) ==
    IF status \in {"Todo", "In progress", "Completed", "Cancelled"} THEN status ELSE "Todo"

\* the value the due time is taken from: the end if there is one, else the start
DueValue(task) == IF task.end_date # Unset THEN task.end_date ELSE task.start_date

Open(task) == Canonical(task.status) \notin {"Completed", "Cancelled"}

\* C26: _status_for_task gives a Completed or Cancelled task its status
\* whatever its dates and the time; a task with neither start nor end its
\* status, never Overdue; any other task whose due value (end, else start) is
\* a time with offset Overdue when that time is before now and its status
\* otherwise; the status being Todo where the stored name is absent or maps
\* to none.
C26_StatusDerivation ==
    probe.fn = "render" =>
        \A i \in DOMAIN probe.calls :
            LET task == probe.task
                call == probe.calls[i]
                due == DueValue(task)
            IN /\ ~Open(task) => call.status = Canonical(task.status)
               /\ task.start_date = Unset /\ task.end_date = Unset =>
                    call.status = Canonical(task.status)
               /\ Open(task) /\ due.kind = "aware" =>
                    call.status = IF due.at - due.off < call.at THEN "Overdue"
                                  ELSE Canonical(task.status)

\* a task with an unmapped status, and an end later than its start, rendered
\* between the two and after the end
C26_Witness ==
    /\ probe.fn = "render"
    /\ probe.task.status = "Someday"
    /\ probe.task.start_date = Date0
    /\ probe.task.end_date.kind = "aware"
    /\ Len(probe.calls) = 2
    /\ probe.calls[1].at > 0
    /\ probe.calls[1].status = "Todo"
    /\ probe.calls[2].status = "Overdue"

EndOfDay(day) == InstantsPerDay * day + InstantsPerDay - 1

\* C27: for a task that is not Completed or Cancelled, a due value that is a
\* date alone makes it Overdue exactly at the instants after 23:59:59 (UTC) of
\* that date; a due value with time of day and no offset exactly at the
\* instants after that time read as UTC; a due value that does not parse at
\* no instant, and the derivation returns.
C27_AllDayBound ==
    probe.fn = "render" =>
        \A i \in DOMAIN probe.calls :
            LET task == probe.task
                call == probe.calls[i]
                due == DueValue(task)
            IN Open(task) =>
                /\ due.kind = "date" => (call.status = "Overdue" <=> call.at > EndOfDay(due.at))
                /\ due.kind = "naive" => (call.status = "Overdue" <=> call.at > due.at)
                /\ due.kind = "bad" => call.status = Canonical(task.status)

\* a task due on a day, its start a time with offset, rendered at 23:59:59
\* of the day and at the next instant
C27_Witness ==
    /\ probe.fn = "render"
    /\ probe.task.end_date = DateOnly(0)
    /\ probe.task.start_date = Date0
    /\ Len(probe.calls) = 2
    /\ probe.calls[1].at = EndOfDay(0)
    /\ probe.calls[1].status = "In progress"
    /\ probe.calls[2].at = EndOfDay(0) + 1
    /\ probe.calls[2].status = "Overdue"

\* the task is past its due time at t
PastDue(task, t) ==
    /\ Open(task)
    /\ \/ DueValue(task).kind = "aware" /\ DueValue(task).at - DueValue(task).off < t
       \/ DueValue(task).kind = "naive" /\ DueValue(task).at < t
       \/ DueValue(task).kind = "date" /\ EndOfDay(DueValue(task).at) < t

\* C28 as stated: two renderings of one task with one colour give the same
\* payload and the same hash, whenever they are made.
C28_RenderDeterministic_AnyTime ==
    probe.fn = "render" =>
        \A i, j \in DOMAIN probe.calls :
            /\ probe.calls[i].ics = probe.calls[j].ics
            /\ probe.calls[i].hash = probe.calls[j].hash

\* C28: the same for two renderings between which the due time of the task
\* does not pass.
C28_RenderDeterministic ==
    probe.fn = "render" =>
        \A i, j \in DOMAIN probe.calls :
            PastDue(probe.task, probe.calls[i].at) = PastDue(probe.task, probe.calls[j].at) =>
                /\ probe.calls[i].ics = probe.calls[j].ics
                /\ probe.calls[i].hash = probe.calls[j].hash

\* an open task rendered twice after its due time, at different times
C28_Witness ==
    /\ probe.fn = "render"
    /\ Len(probe.calls) = 2
    /\ probe.calls[1].at < probe.calls[2].at
    /\ PastDue(probe.task, probe.calls[1].at)
    /\ probe.calls[1].ics = probe.calls[2].ics
    /\ probe.calls[1].ics.status = "Overdue"

\* a string of 32 hexadecimal digits once its dashes (and the white space
\* around it) are removed
Hex32(value) == value.isstr /\ value.sign = "" /\ value.len = UUID_HEX_LEN

\* where in the payload the id is first given
FirstAt(payload, id) ==
    CHOOSE k \in DOMAIN payload :
        /\ Hex32(payload[k]) /\ payload[k].digits = id
        /\ \A l \in 1..(k - 1) : ~(Hex32(payload[l]) /\ payload[l].digits = id)

Collected == probe.fn = "_collect_page_ids" /\ probe.pc = "returned"

\* the ids a payload gives are returned once each, in the order of their first
\* occurrence, dashed or not
IdsOrderedOnce ==
    Collected =>
        LET given == {probe.payload[k].digits : k \in {l \in DOMAIN probe.payload :
                                                          Hex32(probe.payload[l])}}
            out == [i \in {j \in DOMAIN probe.out : probe.out[j] \in given} |-> probe.out[i]]
        IN /\ \A i, j \in DOMAIN probe.out : i # j => probe.out[i] # probe.out[j]
           /\ given \subseteq Range(probe.out)
           /\ \A i, j \in DOMAIN out :
                i < j => FirstAt(probe.payload, out[i]) < FirstAt(probe.payload, out[j])

\* C29: _collect_page_ids returns canonical ids without duplicates, in the
\* order of their first occurrence in the traversal; an id with dashes and the
\* same 32 hexadecimal characters without dashes give the same element; a value
\* that is not 32 hexadecimal characters after removing dashes is never included
C29_IdExtraction ==
    Collected =>
        /\ \A i, j \in DOMAIN probe.out : i # j => probe.out[i] # probe.out[j]
        /\ \A k \in DOMAIN probe.payload :
            Hex32(probe.payload[k]) => probe.payload[k].digits \in Range(probe.out)
        /\ \A i \in DOMAIN probe.out :
            \E k \in DOMAIN probe.payload :
                Hex32(probe.payload[k]) /\ probe.payload[k].digits = probe.out[i]
        /\ \A i, j \in DOMAIN probe.out :
            i < j => FirstAt(probe.payload, probe.out[i]) < FirstAt(probe.payload, probe.out[j])

\* a title-typed property with some text that is not blank
HasText(prop) ==
    /\ prop.isdict
    /\ prop.type = "title"
    /\ \E i \in DOMAIN prop.title :
        /\ prop.title[i].isdict
        /\ \/ prop.title[i].plain_text \notin {"", " "}
           \/ prop.title[i].plain_text = "" /\ prop.title[i].content \notin {"", " "}

\* the text of a property: its texts joined, without the blanks around them
TextOf(prop) == Join(StripParts(Parts(prop.title)))

TitleParsed == probe.fn = "parse_page_to_task" /\ probe.pc = "returned"

\* the title by the order of choice, with the given last choices
TitleByOrder(page, title, last) ==
    LET props == page.properties
        named == {i \in DOMAIN props : props[i].name = TITLE_PROPERTY}
        others == {i \in DOMAIN props : props[i].name # TITLE_PROPERTY /\ HasText(props[i].value)}
    IN /\ title # ""
       /\ IF \E i \in named : HasText(props[i].value)
          THEN \E i \in named : title = TextOf(props[i].value)
          ELSE IF others # {}
          THEN \E i \in others : (\A j \in others : i <= j) /\ title = TextOf(props[i].value)
          ELSE title \in last

TitleFetched == probe.fn = "get_database_title" /\ probe.pc = "returned"

\* the metadata of the database was obtained: a 200 response with a database
Obtained(response) ==
    ~response.raised /\ response.status = 200 /\ response.json.object = "database"

\* the texts of the title entries that are not empty, in order
TitleTexts(title) ==
    Parts(title)

\* with the metadata obtained and every title entry an object, the result is
\* the first non-empty title text when there is one
FirstTitleTextReturned ==
    TitleFetched /\ Obtained(probe.response)
      /\ (\A i \in DOMAIN probe.response.json.title : probe.response.json.title[i].isdict)
      /\ TitleTexts(probe.response.json.title) # << >>
        => probe.result = Returned(Head(TitleTexts(probe.response.json.title)))

\* C31: get_database_title returns the first non-empty title text of the
\* fetched metadata, and fails with an error rather than returning a
\* placeholder when the metadata cannot be obtained
C31_DatabaseTitle ==
    TitleFetched =>
        /\ Obtained(probe.response)
             /\ (\A i \in DOMAIN probe.response.json.title : probe.response.json.title[i].isdict)
             /\ TitleTexts(probe.response.json.title) # << >>
             => probe.result = Returned(Head(TitleTexts(probe.response.json.title)))
        /\ ~Obtained(probe.response) => probe.result.raised

\* C32: within one run every put precedes the cleanup call, and the cleanup
\* call precedes the settings write of last_full_sync and event_hashes; after a
\* put has failed the run makes no cleanup delete and no settings write.
C32_PhaseOrder ==
    [][\A p \in Procs :
        LET r == fs[p]
            r2 == fs'[p]
        IN /\ r2.pc # "idle" /\ r2.puts # r.puts =>
                r.pc = "diff" /\ r2.pc = "diff" /\ r.deleted = {} /\ r.persistedAt = NoDate
           /\ r.pc \in {"persist", "ledger", "done", "failed"} => r2.pc # "diff"
           /\ r.pc = "diff" /\ r2.pc \in {"persist", "failed"} /\ r2.error # "put_event" =>
                /\ r.i > Len(r.tasks)
                /\ r.persistedAt = NoDate
                /\ SameLedger(kv, kv')
           /\ r2.pc # "idle" /\ r2.deleted # r.deleted => r.pc = "diff" /\ r.i > Len(r.tasks)
           /\ r2 # r /\ ~SameLedger(kv, kv') => r.pc \in {"persist", "ledger"}
           /\ r.error = "put_event" =>
                /\ r.deleted = {}
                /\ r.persistedAt = NoDate
                /\ r2.pc \in {"failed", "idle"}
                /\ r2 # r => SameLedger(kv, kv')]_vars

\* a run that has put, then deleted, then written the settings
C32_Witness ==
    \E p \in Procs :
        /\ fs[p].pc = "done"
        /\ fs[p].puts # {}
        /\ fs[p].deleted # {}
        /\ fs[p].persistedAt # NoDate
        /\ ~SameLedger(kv, fs[p].kv0)

\* the database-title fetch for the k-th fetched page raised
TitleFetchRaised(k) ==
    wh.pc = "failed" /\ wh.error = "get_database_title" /\ k = Len(wh.fetched)

CurrentTasks == {_collect_tasks[k] : k \in {j \in DOMAIN _collect_tasks : Syncable(_collect_tasks[j])}}

\* the run of p is complete, was served the whole task list, and neither the
\* source, the colour, the calendar nor a derived status changed under it
RanAlone(p) ==
    /\ fs[p].pc = "done"
    /\ ~fs[p].srcError
    /\ ~fs[p].tainted
    /\ ~fs[p].stirred
    /\ wh.pc \notin {"ensure", "batch"}
    /\ \A q \in Procs \ {p} : fs[q].pc = "idle"

\* C34: when a full sync completes that no other invocation overlapped, the
\* remote events are those of the source tasks with a start and an id, and
\* each remote event is the payload rendered from the current task, after any
\* history of full syncs and webhook batches.
C34_Convergence ==
    \A p \in Procs :
        RanAlone(p) =>
            /\ DOMAIN remote = {task.notion_id : task \in CurrentTasks}
            /\ \A task \in CurrentTasks :
                 remote[task.notion_id] = _build_ics_for_task(task, fs[p].calendar_color, now)

\* C35: the cleanup of a full sync deletes no event that a webhook batch has
\* put since that full sync listed the remote events and collected its tasks;
\* when both have finished, every such task that has a start and an id
\* upstream has a remote event. (Stated for runs that were served the whole
\* task list.)
C35_CleanupKeepsHookWrites ==
    \A p \in Procs :
        /\ ~fs[p].srcError => fs[p].hooked \cap fs[p].deleted = {}
        /\ ~fs[p].srcError /\ fs[p].pc = "done" /\ wh.pc \notin {"ensure", "batch"} =>
             \A task \in CurrentTasks :
                task.notion_id \in fs[p].hooked => task.notion_id \in DOMAIN remote

\* the mapping gives field f the value the update u asked for
Shows(settings, f, u) == f \in DOMAIN settings /\ settings[f] = u.v

\* C36: an update_settings call that nothing overlaps, on any store, returns
\* a mapping that has every field it was given a value for at that value, and
\* so does a load_settings that follows it.
C36_ReadYourWrite ==
    \A c \in Callers :
        LET call == store.calls[c]
        IN /\ (/\ store.left = MaxCalls - 1
               /\ call.op = "update"
               /\ call.pc = "returned") =>
                  \A f \in DOMAIN call.updates :
                      call.updates[f].some => Shows(call.result, f, call.updates[f])
           /\ (/\ store.left = MaxCalls - 2
               /\ call.n = 2
               /\ call.op = "load"
               /\ call.pc = "returned") =>
                  \A f \in DOMAIN call.prev :
                      call.prev[f].some => Shows(call.result, f, call.prev[f])

\* the same on a store that holds no legacy record to migrate
C36_ReadYourWrite_NoLegacy ==
    store.init.legacy.kind # "object" => C36_ReadYourWrite

\* C37: once a full sync has gone through its persist step, either
\* last_full_sync and event_hashes both hold this run's values or both are as
\* they were when the run started, also when a KV write has failed.
C37_PersistAllOrNothing ==
    \A p \in Procs :
        fs[p].pc = "done" =>
            \/ /\ DictGet(kv, "last_full_sync", NoDate) = fs[p].persistedAt
               /\ "event_hashes" \in DOMAIN kv
               /\ kv["event_hashes"] = fs[p].updated_hashes
            \/ SameLedger(kv, fs[p].kv0)

\* the same when no write of the settings store has failed
C37_PersistAllOrNothing_NoFault ==
    (\A p \in Procs : fs[p].dropped = {}) => C37_PersistAllOrNothing

\* the persisted last_full_sync and event_hashes are those run p wrote
PersistedBy(p) ==
    /\ "last_full_sync" \in DOMAIN kv
    /\ kv["last_full_sync"] = fs[p].persistedAt
    /\ "event_hashes" \in DOMAIN kv
    /\ kv["event_hashes"] = fs[p].updated_hashes

\* C38: when two overlapping full syncs have both completed, each served the
\* whole task list, and no full sync is in progress, the persisted
\* last_full_sync and event_hashes are the pair one of the two wrote.
C38_OneWriter ==
    (\A p \in Procs : fs[p].pc = "done" /\ ~fs[p].srcError) => \E p \in Procs : PersistedBy(p)

\* the update_settings call of a settings request whose body holds
\* calendar_name alone, blank or not
PostsNameOnly(call) ==
    /\ call.op = "update"
    /\ DOMAIN call.updates = {"calendar_name"}

\* the step from store st to store to leaves the record of field f as it is,
\* or makes it of the legacy record when there was none
KeepsRecord(st, to, f) ==
    IF f \in DOMAIN st.fields
    THEN f \in DOMAIN to.fields /\ to.fields[f] = st.fields[f]
    ELSE f \in DOMAIN to.fields =>
            /\ st.legacy.kind = "object"
            /\ f \in MigratedFields(st.legacy.data)
            /\ Decode(to.fields[f]) = st.legacy.data[f]

\* C39: no step of a settings request whose body holds calendar_name alone,
\* blank or not, removes or rewrites the record another field has.
C39_SettingsFrame ==
    [][\A c \in Callers :
          (PostsNameOnly(store.calls[c]) /\ store'.calls[c] # store.calls[c]) =>
              KeepsRecord(store, store', "calendar_color")]_vars

\* the same on a store that holds no legacy record to migrate
C39_SettingsFrame_NoLegacy ==
    [][store.init.legacy.kind # "object" =>
          \A c \in Callers :
              (PostsNameOnly(store.calls[c]) /\ store'.calls[c] # store.calls[c]) =>
                  KeepsRecord(store, store', "calendar_color")]_vars

Listing == probe.fn = "_kv_list"
ListEnded == Listing /\ probe.pc = "returned"

\* the response the listing got last reported list_complete, or was a raise
CompleteServed ==
    Listing /\ probe.asked /\ (probe.last.raised \/ probe.last.list_complete = "True")

\* the response the listing got last carried no cursor, or was a raise
NoCursorServed ==
    Listing /\ probe.asked /\ (probe.last.raised \/ probe.last.cursor = "")

\* a listing that has ended returns the name of every entry that has one, of
\* every response it got, in order
ListedAll ==
    Listing /\ probe.pc \in {"done", "returned"} => probe.keys = EntryNames(probe.served)

\* C40 as stated: a listing whose store from some response on reports
\* list_complete (or raises) comes to its end, and it returns the name of
\* every key of every page it fetched.
C40_ListTerminates_WhenComplete ==
    /\ <>[]CompleteServed => <>ListEnded
    /\ []ListedAll

\* C40: a listing whose store has answered without a cursor (or raised) comes
\* to its end, whatever list_complete said, and it has ended only then; it
\* returns the name of every named key of every page it fetched, in order.
C40_ListTerminates ==
    /\ NoCursorServed ~> ListEnded
    /\ [](Listing /\ probe.pc \in {"done", "returned"} => NoCursorServed)
    /\ []ListedAll

\* a listing has returned two names after passing over an entry without one
\* and after following the cursor of a response that reported list_complete
C40_Witness ==
    /\ ListEnded
    /\ probe.followed
    /\ Len(probe.keys) = 2
    /\ Len(probe.served) = 3
====
